---------------------------- MODULE Spec2Model ----------------------------
(***************************************************************************)
(* Statistics engine of the weekly recap (src/stats.py) over the schedule, *)
(* standings and transaction data the Fantrax client hands it              *)
(* (src/fantrax_client.py), and the transaction watcher                    *)
(* (src/transaction_watcher.py) with its state in Firestore                *)
(* (src/firestore_client.py).                                              *)
(*                                                                         *)
(* Python values are modelled as follows.                                  *)
(*   - a dict is a TLA+ function; where the code iterates a dict the       *)
(*     insertion order is kept beside it as a sequence of keys;            *)
(*   - a list is a sequence;                                               *)
(*   - a float is a pair <<s, n>>: s = 0 for the finite value n, s = 1 for *)
(*     float("inf") and s = -1 for -float("inf");                          *)
(*   - provider text (category values, date ranges, transaction dates) is  *)
(*     kept as text and converted by the operators that model float() and  *)
(*     datetime.strptime();                                                *)
(*   - an exception leaving compute_weekly_stats is the result             *)
(*     [raised |-> <exception type>].                                      *)
(***************************************************************************)
EXTENDS Integers, Sequences, FiniteSets, TLC

VARIABLES
    schedule,      \* client.schedule(): the list of period dicts
    period_arg,    \* the period_num argument of compute_weekly_stats
    batch,         \* client.fetch_period_data(): standings, prev_standings, transactions
    result,        \* what compute_weekly_stats returned (or raised)
    pc,            \* "build" while the provider data is assembled, "done" after the call
    requests,      \* the requests compute_weekly_stats has made to the client, in order
    target_period, \* the local variable period of compute_weekly_stats
    feed,          \* the provider's transactions and trades, newest first
    store,         \* Firestore: the league's seen_ids collection and its seeded field
    discord,       \* the embeds Discord accepted (status 204), in order
    runs           \* the invocations of check_once: position and local variables

stats_vars == <<schedule, period_arg, batch, result, pc, requests, target_period>>
watcher_vars == <<feed, store, discord, runs>>
vars == <<schedule, period_arg, batch, result, pc, requests, target_period,
          feed, store, discord, runs>>

(***************************************************************************)
(* Bounds of the model.                                                    *)
(***************************************************************************)
MaxPeriods == 2
MaxTxns == 2
MaxStandings == 4
MaxCats == 5
MaxWeeks == 3

(***************************************************************************)
(* Python's None; a value that may be None and is no dict is Some(v) when   *)
(* it is not.  An operation that may raise gives Raise(e) or Ok(v).        *)
(***************************************************************************)
None == [none |-> TRUE]
Some(v) == [none |-> FALSE, v |-> v]
IsNone(x) == x.none

Raise(e) == [raised |-> e]
Ok(v) == [val |-> v]
Raised(x) == "raised" \in DOMAIN x

\* the result before any call
NoResult == [pending |-> TRUE]

(***************************************************************************)
(* Generic helpers for dicts with a remembered insertion order.            *)
(***************************************************************************)
Range(s) == {s[i] : i \in 1..Len(s)}

\* d[k] = v on a TLA+ function standing for a dict
DictPut(d, k, v) == [x \in DOMAIN d \cup {k} |-> IF x = k THEN v ELSE d[x]]

\* list(d.keys()) after d[k] = ...: a new key goes last, an old one keeps its place
KeysPut(keys, k) == IF k \in Range(keys) THEN keys ELSE Append(keys, k)

EmptyDict == [x \in {} |-> 0]

(***************************************************************************)
(* src/stats.py:9-11                                                       *)
(***************************************************************************)
LOWER_IS_BETTER == {"Earned Run Average", "WHIP Ratio", "Walks Allowed Per Nine Innings",
                    "Losses", "Home Runs Allowed"}

(***************************************************************************)
(* float(text): the category values of the provider are decimal text or a  *)
(* placeholder.  FloatOf gives the parsed number of the texts float()      *)
(* accepts; every other text makes float() raise ValueError.               *)
(***************************************************************************)
FloatOf == [t \in {"0", "3", "5"} |-> CASE t = "0" -> 0 [] t = "3" -> 3 [] t = "5" -> 5]

float_ok(text) == text \in DOMAIN FloatOf
float(text) == <<0, FloatOf[text]>>

Inf == <<1, 0>>
Zero == <<0, 0>>
FNeg(a) == <<0 - a[1], 0 - a[2]>>
FGt(a, b) == a[1] > b[1] \/ (a[1] = b[1] /\ a[1] = 0 /\ a[2] > b[2])
FLt(a, b) == FGt(b, a)


(***************************************************************************)
(* A matchup dict as FantraxClient.schedule() builds it                    *)
(* (src/fantrax_client.py:203-219).  <side>_cats maps a category name to   *)
(* the text of its "value".                                                *)
(***************************************************************************)
Sides == <<"away", "home">>

SideName(m, side) == IF side = "away" THEN m.away_team_name ELSE m.home_team_name
SideCats(m, side) == IF side = "away" THEN m.away_cats ELSE m.home_cats
SideWins(m, side) == IF side = "away" THEN m.away_wins ELSE m.home_wins
SideLosses(m, side) == IF side = "away" THEN m.away_losses ELSE m.home_losses
SideTies(m, side) == IF side = "away" THEN m.away_ties ELSE m.home_ties
Opp(side) == IF side = "away" THEN "home" ELSE "away"

(***************************************************************************)
(* _collect_team_cats, src/stats.py:141-162.  The result is the dict       *)
(* (cats) with its insertion order (teams).                                *)
(***************************************************************************)
\* lines 152-156: float(info["value"]), 0.0 when float() raises
CollectValue(text) == IF float_ok(text) THEN float(text) ELSE Zero

\* PenalizeZeroIP without lines 158-161
PenalizeZeroIP_Skipped(cats) == cats

\* lines 158-161: a team with 0 in "Innings Pitched" (or without it) gets inf
\* in each lower-is-better category it has
PenalizeZeroIP(cats) ==
    LET ip == IF "Innings Pitched" \in DOMAIN cats THEN cats["Innings Pitched"] ELSE Zero
    IN  IF ip = Zero
        THEN [c \in DOMAIN cats |-> IF c \in LOWER_IS_BETTER THEN Inf ELSE cats[c]]
        ELSE cats

\* lines 151-161 for one side of one matchup
CollectSide(raw) == PenalizeZeroIP([c \in DOMAIN raw |-> CollectValue(raw[c])])

RECURSIVE CollectLoop(_, _, _)
CollectLoop(matchups, k, acc) ==
    IF k > 2 * Len(matchups) THEN acc
    ELSE LET m == matchups[(k + 1) \div 2]
             side == Sides[2 - (k % 2)]
             name == SideName(m, side)
         IN  CollectLoop(matchups, k + 1,
                 [teams |-> KeysPut(acc.teams, name),
                  cats  |-> DictPut(acc.cats, name, CollectSide(SideCats(m, side)))])

_collect_team_cats(period) ==
    CollectLoop(period.matchups, 1, [teams |-> <<>>, cats |-> EmptyDict])

(***************************************************************************)
(* _simulate_h2h, src/stats.py:165-182: <<wins, losses, ties>> of team1.   *)
(***************************************************************************)
\* H2HValues without the sign flip of line 175
H2HValues_NoFlip(team1_cats, team2_cats, cat) ==
    <<team1_cats[cat], IF cat \in DOMAIN team2_cats THEN team2_cats[cat] ELSE Zero>>

\* lines 172-175: the two values compared for one category
H2HValues(team1_cats, team2_cats, cat) ==
    LET v1 == team1_cats[cat]
        v2 == IF cat \in DOMAIN team2_cats THEN team2_cats[cat] ELSE Zero
    IN  IF cat \in LOWER_IS_BETTER THEN <<FNeg(v1), FNeg(v2)>> ELSE <<v1, v2>>

\* H2HOutcome with ">=" for ">": equal values credited as a win
H2HOutcome_TieAsWin(team1_cats, team2_cats, cat) ==
    LET v == H2HValues(team1_cats, team2_cats, cat)
    IN  IF FGt(v[1], v[2]) \/ v[1] = v[2] THEN "W" ELSE "L"

\* lines 176-181

H2HOutcome(team1_cats, team2_cats, cat) ==
    LET v == H2HValues(team1_cats, team2_cats, cat)
    IN  IF FGt(v[1], v[2]) THEN "W"
        ELSE IF FLt(v[1], v[2]) THEN "L"
        ELSE "T"

_simulate_h2h(team1_cats, team2_cats) ==
    LET n(o) == Cardinality({c \in DOMAIN team1_cats : H2HOutcome(team1_cats, team2_cats, c) = o})
    IN  <<n("W"), n("L"), n("T")>>

(***************************************************************************)
(* The accumulation shared by _all_play_record (src/stats.py:198-209) and  *)
(* _weekly_all_play (src/stats.py:218-230).                                *)
(***************************************************************************)
ZeroRecord == [wins |-> 0, losses |-> 0, ties |-> 0]

\* records[t]["wins"] += w; ... on a defaultdict
RecordAdd(records, t, w, l, ti) ==
    LET old == IF t \in DOMAIN records THEN records[t] ELSE ZeroRecord
    IN  DictPut(records, t, [wins |-> old.wins + w, losses |-> old.losses + l,
                             ties |-> old.ties + ti])

\* lines 203-209 for the pair (t1, t2)
CreditPair(records, tc, t1, t2) ==
    LET r == _simulate_h2h(tc.cats[t1], tc.cats[t2])
    IN  RecordAdd(RecordAdd(records, t1, r[1], r[2], r[3]), t2, r[2], r[1], r[3])

\* PairLoop with "for t2 in teams" for "for t2 in teams[i + 1:]": every ordered
\* pair of distinct teams is credited, so each unordered pair twice
RECURSIVE PairLoop_OrderedPairs(_, _, _, _)
PairLoop_OrderedPairs(records, tc, i, j) ==
    IF i > Len(tc.teams) THEN records
    ELSE IF j > Len(tc.teams) + 1 THEN PairLoop_OrderedPairs(records, tc, i + 1, 2)
    ELSE IF j - 1 = i THEN PairLoop_OrderedPairs(records, tc, i, j + 1)
    ELSE PairLoop_OrderedPairs(CreditPair(records, tc, tc.teams[i], tc.teams[j - 1]),
                               tc, i, j + 1)

\* lines 201-202: for i, t1 in enumerate(teams): for t2 in teams[i + 1:]
RECURSIVE PairLoop(_, _, _, _)
PairLoop(records, tc, i, j) ==
    IF i > Len(tc.teams) THEN records
    ELSE IF j > Len(tc.teams) THEN PairLoop(records, tc, i + 1, i + 2)
    ELSE PairLoop(CreditPair(records, tc, tc.teams[i], tc.teams[j]), tc, i, j + 1)

AllPlayPeriod(records, period) == PairLoop(records, _collect_team_cats(period), 1, 2)

(***************************************************************************)
(* _all_play_record, src/stats.py:185-213.  The returned dict is re-built  *)
(* in descending order of win percentage; as a dict it equals the          *)
(* accumulated one, which is what the model keeps.                         *)
(***************************************************************************)
\* AllPlayLoop with ">=" for ">" in line 193: the period through_period is left out
RECURSIVE AllPlayLoop_StopsEarly(_, _, _, _)
AllPlayLoop_StopsEarly(sched, through_period, k, records) ==
    IF k > Len(sched) THEN records
    ELSE IF sched[k].period_num >= through_period THEN records
    ELSE IF sched[k].matchups = <<>>
    THEN AllPlayLoop_StopsEarly(sched, through_period, k + 1, records)
    ELSE AllPlayLoop_StopsEarly(sched, through_period, k + 1,
                                AllPlayPeriod(records, sched[k]))

RECURSIVE AllPlayLoop(_, _, _, _)
AllPlayLoop(sched, through_period, k, records) ==
    IF k > Len(sched) THEN records
    ELSE IF sched[k].period_num > through_period THEN records
    ELSE IF sched[k].matchups = <<>> THEN AllPlayLoop(sched, through_period, k + 1, records)
    ELSE AllPlayLoop(sched, through_period, k + 1, AllPlayPeriod(records, sched[k]))

_all_play_record(sched, through_period) == AllPlayLoop(sched, through_period, 1, EmptyDict)

(***************************************************************************)
(* _weekly_all_play, src/stats.py:216-233 (returned in descending order of *)
(* wins; kept as the dict).                                                *)
(***************************************************************************)
_weekly_all_play(period) == AllPlayPeriod(EmptyDict, period)

(***************************************************************************)
(* _latest_completed, src/stats.py:52-60: the last period of the list,     *)
(* in list order, that has matchups and whose first matchup has            *)
(* away_wins + away_losses + away_ties > 0; None when there is none.       *)
(***************************************************************************)
FirstMatchupScored(p) ==
    /\ p.matchups # <<>>
    /\ p.matchups[1].away_wins + p.matchups[1].away_losses + p.matchups[1].away_ties > 0

\* LatestLoop that keeps the first completed period instead of the last
RECURSIVE LatestLoop_KeepsFirst(_, _, _)
LatestLoop_KeepsFirst(sched, k, latest) ==
    IF k > Len(sched) THEN latest
    ELSE LatestLoop_KeepsFirst(sched, k + 1,
             IF FirstMatchupScored(sched[k]) /\ latest = None THEN sched[k] ELSE latest)

RECURSIVE LatestLoop(_, _, _)
LatestLoop(sched, k, latest) ==
    IF k > Len(sched) THEN latest
    ELSE LatestLoop(sched, k + 1, IF FirstMatchupScored(sched[k]) THEN sched[k] ELSE latest)

_latest_completed(sched) == LatestLoop(sched, 1, None)

(***************************************************************************)
(* _biggest_blowout, src/stats.py:63-84.  net = w - l + 0.5 t is kept      *)
(* doubled (net2 = 2w - 2l + t) so that it stays an integer; the record    *)
(* text "w-l-t" is kept as <<w, l, t>>.  {} is EmptyDict.                  *)
(***************************************************************************)
Net2(m, side) == 2 * SideWins(m, side) - 2 * SideLosses(m, side) + SideTies(m, side)

BlowoutEntry(m, side) ==
    [team |-> SideName(m, side),
     record |-> <<SideWins(m, side), SideLosses(m, side), SideTies(m, side)>>,
     net2 |-> Net2(m, side)]

\* the loop taking a side whose net equals the best so far
RECURSIVE BlowoutLoop_KeepsLast(_, _, _)
BlowoutLoop_KeepsLast(matchups, k, best) ==
    IF k > 2 * Len(matchups) THEN best
    ELSE LET m == matchups[(k + 1) \div 2]
             side == Sides[2 - (k % 2)]
             net2 == Net2(m, side)
             win == net2 >= best.win_net2
             lose == net2 <= best.lose_net2
         IN  BlowoutLoop_KeepsLast(matchups, k + 1,
                 [win_net2 |-> IF win THEN net2 ELSE best.win_net2,
                  winner |-> IF win THEN BlowoutEntry(m, side) ELSE best.winner,
                  lose_net2 |-> IF lose THEN net2 ELSE best.lose_net2,
                  loser |-> IF lose THEN BlowoutEntry(m, side) ELSE best.loser])

RECURSIVE BlowoutLoop(_, _, _)
BlowoutLoop(matchups, k, best) ==
    IF k > 2 * Len(matchups) THEN best
    ELSE LET m == matchups[(k + 1) \div 2]
             side == Sides[2 - (k % 2)]
             net2 == Net2(m, side)
             win == net2 > best.win_net2
             lose == net2 < best.lose_net2
         IN  BlowoutLoop(matchups, k + 1,
                 [win_net2 |-> IF win THEN net2 ELSE best.win_net2,
                  winner |-> IF win THEN BlowoutEntry(m, side) ELSE best.winner,
                  lose_net2 |-> IF lose THEN net2 ELSE best.lose_net2,
                  loser |-> IF lose THEN BlowoutEntry(m, side) ELSE best.loser])

_biggest_blowout(period) ==
    LET best == BlowoutLoop(period.matchups, 1,
                    [win_net2 |-> 0 - 1998, winner |-> EmptyDict,
                     lose_net2 |-> 1998, loser |-> EmptyDict])
    IN  [winner |-> best.winner, loser |-> best.loser]

(***************************************************************************)
(* _dominant_performance, src/stats.py:87-104.                             *)
(***************************************************************************)
RECURSIVE DominantLoop(_, _, _, _)
DominantLoop(matchups, k, best_wins, best) ==
    IF k > 2 * Len(matchups) THEN best
    ELSE LET m == matchups[(k + 1) \div 2]
             side == Sides[2 - (k % 2)]
             wins == SideWins(m, side)
         IN  IF wins > best_wins
             THEN DominantLoop(matchups, k + 1, wins,
                      [team |-> SideName(m, side), opponent |-> SideName(m, Opp(side)),
                       wins |-> wins, losses |-> SideLosses(m, side),
                       ties |-> SideTies(m, side)])
             ELSE DominantLoop(matchups, k + 1, best_wins, best)

_dominant_performance(period) == DominantLoop(period.matchups, 1, 0, EmptyDict)

(***************************************************************************)
(* _category_kings, src/stats.py:107-138.                                  *)
(***************************************************************************)
\* team_values with a text float() rejects taken as 0.0
RECURSIVE TeamValues_TextAsZero(_, _, _)
TeamValues_TextAsZero(matchups, cat_name, k) ==
    IF k > 2 * Len(matchups) THEN <<>>
    ELSE LET m == matchups[(k + 1) \div 2]
             side == Sides[2 - (k % 2)]
             val_str == SideCats(m, side)[cat_name]
         IN  <<[team |-> SideName(m, side),
                value |-> IF float_ok(val_str) THEN float(val_str) ELSE Zero]>>
                 \o TeamValues_TextAsZero(matchups, cat_name, k + 1)

\* lines 118-128: team_values[cat_name], the (team, value) pairs of the sides
\* whose text float() accepts, in input order
RECURSIVE TeamValues(_, _, _)
TeamValues(matchups, cat_name, k) ==
    IF k > 2 * Len(matchups) THEN <<>>
    ELSE LET m == matchups[(k + 1) \div 2]
             side == Sides[2 - (k % 2)]
             val_str == SideCats(m, side)[cat_name]
             rest == TeamValues(matchups, cat_name, k + 1)
         IN  IF float_ok(val_str)
             THEN <<[team |-> SideName(m, side), value |-> float(val_str)]>> \o rest
             ELSE rest

\* lines 134-136: sorted(values, key=value, reverse=reverse)[0]; the sort is
\* stable, so among equal values the first of the input comes first
RECURSIVE BestOf(_, _, _, _)
BestOf(values, reverse, k, best) ==
    IF k > Len(values) THEN best
    ELSE LET better == IF reverse THEN FGt(values[k].value, best.value)
                       ELSE FLt(values[k].value, best.value)
         IN  BestOf(values, reverse, k + 1, IF better THEN values[k] ELSE best)

_category_kings(period) ==
    IF period.matchups = <<>> THEN EmptyDict
    ELSE LET categories == period.matchups[1].categories
             tv(c) == TeamValues(period.matchups, c, 1)
             kinged == {c \in Range(categories) : tv(c) # <<>>}
         IN  [c \in kinged |-> BestOf(tv(c), c \notin LOWER_IS_BETTER, 2, tv(c)[1])]

(***************************************************************************)
(* _streaks, src/stats.py:236-270.                                         *)
(***************************************************************************)
HistAppend(history, team, sym) ==
    DictPut(history, team, IF team \in DOMAIN history THEN Append(history[team], sym)
                           ELSE <<sym>>)

\* lines 247-255 for one matchup
MatchupSymbols(history, m) ==
    IF m.away_wins > m.home_wins
    THEN HistAppend(HistAppend(history, m.away_team_name, "W"), m.home_team_name, "L")
    ELSE IF m.home_wins > m.away_wins
    THEN HistAppend(HistAppend(history, m.home_team_name, "W"), m.away_team_name, "L")
    ELSE HistAppend(HistAppend(history, m.away_team_name, "T"), m.home_team_name, "T")

RECURSIVE HistoryMatchups(_, _, _)
HistoryMatchups(history, matchups, k) ==
    IF k > Len(matchups) THEN history
    ELSE HistoryMatchups(MatchupSymbols(history, matchups[k]), matchups, k + 1)

\* HistoryLoop without the break of line 242: the periods after through_period
\* are walked as well
RECURSIVE HistoryLoop_NoCutoff(_, _, _, _)
HistoryLoop_NoCutoff(sched, through_period, k, history) ==
    IF k > Len(sched) THEN history
    ELSE HistoryLoop_NoCutoff(sched, through_period, k + 1,
                              HistoryMatchups(history, sched[k].matchups, 1))

\* lines 241-255
RECURSIVE HistoryLoop(_, _, _, _)
HistoryLoop(sched, through_period, k, history) ==
    IF k > Len(sched) THEN history
    ELSE IF sched[k].period_num > through_period THEN history
    ELSE HistoryLoop(sched, through_period, k + 1,
                     HistoryMatchups(history, sched[k].matchups, 1))

\* the number of results equal to the last one, trailing or not
RECURSIVE TrailingRun_CountsAll(_, _)
TrailingRun_CountsAll(results, k) ==
    IF k < 1 THEN 0
    ELSE (IF results[k] = results[Len(results)] THEN 1 ELSE 0)
             + TrailingRun_CountsAll(results, k - 1)

\* lines 261-267: the number of trailing results equal to the last one
RECURSIVE TrailingRun(_, _)
TrailingRun(results, k) ==
    IF k >= 1 /\ results[k] = results[Len(results)] THEN 1 + TrailingRun(results, k - 1)
    ELSE 0

_streaks(sched, through_period) ==
    LET history == HistoryLoop(sched, through_period, 1, EmptyDict)
    IN  [team \in DOMAIN history |->
            [type |-> history[team][Len(history[team])],
             count |-> TrailingRun(history[team], Len(history[team]))]]

(***************************************************************************)
(* _category_sweeps, src/stats.py:323-340.  wins >= total_cats * 0.8 is    *)
(* 5 wins >= 4 total_cats.                                                 *)
(***************************************************************************)
SweepEntry(m, side, total_cats) ==
    [team |-> SideName(m, side), opponent |-> SideName(m, Opp(side)),
     wins |-> SideWins(m, side), total |-> total_cats]

\* the loop flagging only a side that won more than 80% of the categories
RECURSIVE SweepLoop_Above(_, _)
SweepLoop_Above(matchups, k) ==
    IF k > 2 * Len(matchups) THEN <<>>
    ELSE LET m == matchups[(k + 1) \div 2]
             side == Sides[2 - (k % 2)]
             total_cats == m.away_wins + m.away_losses + m.away_ties
             rest == SweepLoop_Above(matchups, k + 1)
         IN  IF total_cats # 0 /\ 5 * SideWins(m, side) > 4 * total_cats
             THEN <<SweepEntry(m, side, total_cats)>> \o rest
             ELSE rest

RECURSIVE SweepLoop(_, _)
SweepLoop(matchups, k) ==
    IF k > 2 * Len(matchups) THEN <<>>
    ELSE LET m == matchups[(k + 1) \div 2]
             side == Sides[2 - (k % 2)]
             total_cats == m.away_wins + m.away_losses + m.away_ties
             rest == SweepLoop(matchups, k + 1)
         IN  IF total_cats # 0 /\ 5 * SideWins(m, side) >= 4 * total_cats
             THEN <<SweepEntry(m, side, total_cats)>> \o rest
             ELSE rest

_category_sweeps(period) == SweepLoop(period.matchups, 1)

(***************************************************************************)
(* _standings_movement, src/stats.py:273-283.  A standings row is          *)
(* [team_name, rank, wins, losses, ties]; previous is None or Some(rows).   *)
(***************************************************************************)
\* line 278: {s["team_name"]: s["rank"] for s in previous}, later rows win
RECURSIVE PrevRanks(_, _, _)
PrevRanks(previous, k, acc) ==
    IF k > Len(previous) THEN acc
    ELSE PrevRanks(previous, k + 1, DictPut(acc, previous[k].team_name, previous[k].rank))

RECURSIVE MovementLoop(_, _, _, _)
MovementLoop(current, prev_ranks, k, movement) ==
    IF k > Len(current) THEN movement
    ELSE LET s == current[k]
             prev == IF s.team_name \in DOMAIN prev_ranks THEN prev_ranks[s.team_name]
                     ELSE s.rank
         IN  MovementLoop(current, prev_ranks, k + 1,
                          DictPut(movement, s.team_name, prev - s.rank))

_standings_movement(current, previous) ==
    IF IsNone(previous) \/ previous.v = <<>> THEN EmptyDict
    ELSE MovementLoop(current, PrevRanks(previous.v, 1, EmptyDict), 1, EmptyDict)

(***************************************************************************)
(* _luck_rating, src/stats.py:286-320.  A percentage x / y is kept as the  *)
(* pair <<x, y>> and a difference of two as <<numerator, denominator>>.    *)
(***************************************************************************)
Max(a, b) == IF a >= b THEN a ELSE b

\* a / n rounded down
Round_Down(a, n) == a \div n

\* round(a / n) of Python 3 for integers a >= 0, n >= 1: to the nearest
\* integer, a half to the even one
Round(a, n) ==
    LET q == a \div n
        r == a % n
    IN  IF 2 * r < n THEN q
        ELSE IF 2 * r > n THEN q + 1
        ELSE IF q % 2 = 0 THEN q ELSE q + 1

\* lines 294-314 for one standings row whose team has an all-play record
LuckEntry(s, ap, num_opponents) ==
    LET actual_total == s.wins + s.losses + s.ties
        ap_total == Max(1, ap.wins + ap.losses + ap.ties)
        disp_ap_w == Round(ap.wins, num_opponents)
        disp_ap_l == Round(ap.losses, num_opponents)
        disp_ap_t == Round(ap.ties, num_opponents)
    IN  [actual_pct |-> <<s.wins, Max(1, actual_total)>>,
         all_play_pct |-> <<ap.wins, ap_total>>,
         diff |-> <<s.wins * ap_total - ap.wins * Max(1, actual_total),
                    Max(1, actual_total) * ap_total>>,
         games_back |-> s.wins - disp_ap_w,
         actual_record |-> <<s.wins, s.losses, s.ties>>,
         all_play_record |-> <<disp_ap_w, disp_ap_l, disp_ap_t>>]

\* lines 292-314: luck.items() in insertion order, as <<name, entry>> pairs
RECURSIVE LuckLoop(_, _, _, _, _)
LuckLoop(standings, all_play, num_opponents, k, luck) ==
    IF k > Len(standings) THEN luck
    ELSE LET s == standings[k]
             name == s.team_name
         IN  IF name \in DOMAIN all_play
             THEN LuckLoop(standings, all_play, num_opponents, k + 1,
                      [keys |-> KeysPut(luck.keys, name),
                       val |-> DictPut(luck.val, name,
                                       LuckEntry(s, all_play[name], num_opponents))])
             ELSE LuckLoop(standings, all_play, num_opponents, k + 1, luck)

\* a pick that keeps the first team of the luck dict
LuckPick_KeepsFirst(luck, k, best, last) == best

\* line 316-319: sorted(..., key=games_back, reverse=True) is stable, so
\* [0] is the first of the greatest and [-1] the last of the least
RECURSIVE LuckPick(_, _, _, _)
LuckPick(luck, k, best, last) ==
    IF k > Len(luck.keys) THEN best
    ELSE LET gb(n) == luck.val[n].games_back
             take == IF last THEN gb(luck.keys[k]) <= gb(best)
                     ELSE gb(luck.keys[k]) > gb(best)
         IN  LuckPick(luck, k + 1, IF take THEN luck.keys[k] ELSE best, last)

_luck_rating(standings, sched, through_period) ==
    LET all_play == _all_play_record(sched, through_period)
        num_opponents == Max(1, Len(standings) - 1)
        luck == LuckLoop(standings, all_play, num_opponents, 1,
                         [keys |-> <<>>, val |-> EmptyDict])
        top == LuckPick(luck, 2, luck.keys[1], FALSE)
        bottom == LuckPick(luck, 2, luck.keys[1], TRUE)
    IN  IF luck.keys = <<>> THEN [luckiest |-> None, unluckiest |-> None]
        ELSE [luckiest |-> Some(<<top, luck.val[top]>>),
              unluckiest |-> Some(<<bottom, luck.val[bottom]>>)]

(***************************************************************************)
(* Text.  A str is a sequence of tokens: a word ("Mon", "16", "10:00am")   *)
(* or one of the characters " ", ",", "-", "(" and ")".  The operators     *)
(* below are str.strip, str.split and datetime.strptime on such text.      *)
(***************************************************************************)
\* text.strip(chars)
RECURSIVE LStrip(_, _)
LStrip(text, chars) ==
    IF text # <<>> /\ Head(text) \in chars THEN LStrip(Tail(text), chars) ELSE text

RECURSIVE RStrip(_, _)
RStrip(text, chars) ==
    IF text # <<>> /\ text[Len(text)] \in chars
    THEN RStrip(SubSeq(text, 1, Len(text) - 1), chars)
    ELSE text

Strip(text, chars) == RStrip(LStrip(text, chars), chars)

StartsWith(text, sep) == Len(text) >= Len(sep) /\ SubSeq(text, 1, Len(sep)) = sep

\* text.split(sep): the list of the pieces between the occurrences of sep
RECURSIVE SplitLoop(_, _, _)
SplitLoop(text, sep, piece) ==
    IF text = <<>> THEN <<piece>>
    ELSE IF StartsWith(text, sep)
    THEN <<piece>> \o SplitLoop(SubSeq(text, Len(sep) + 1, Len(text)), sep, <<>>)
    ELSE SplitLoop(Tail(text), sep, Append(piece, Head(text)))

Split(text, sep) == SplitLoop(text, sep, <<>>)

Weekdays == {"Mon", "Tue", "Wed", "Thu", "Fri", "Sat", "Sun"}
MonthNo == [t \in {"Jun", "Jul"} |-> IF t = "Jun" THEN 6 ELSE 7]
DayNo == [t \in {"16", "18", "22", "25"} |->
            CASE t = "16" -> 16 [] t = "18" -> 18 [] t = "22" -> 22 [] t = "25" -> 25]
YearNo == [t \in {"2025"} |-> 2025]

\* the first index from i on that holds no whitespace
RECURSIVE WsEnd(_, _)
WsEnd(text, i) == IF i <= Len(text) /\ text[i] = " " THEN WsEnd(text, i + 1) ELSE i

ValueError == Raise("ValueError")
IndexError == Raise("IndexError")

\* datetime.strptime(text, "%a %b %d, %Y"): weekday name, month name and day
\* separated by whitespace, a comma, whitespace, the year, and nothing else;
\* the whitespace of the format stands for one or more whitespace characters.
\* A datetime is [year, month, day, hour, minute, second].
strptime(text) ==
    LET n == Len(text)
        ib == WsEnd(text, 2)
        id == WsEnd(text, ib + 1)
        iy == WsEnd(text, id + 2)
    IN  IF /\ n >= 1 /\ text[1] \in Weekdays
           /\ ib > 2 /\ ib <= n /\ text[ib] \in DOMAIN MonthNo
           /\ id > ib + 1 /\ id <= n /\ text[id] \in DOMAIN DayNo
           /\ id + 1 <= n /\ text[id + 1] = ","
           /\ iy > id + 2 /\ iy = n /\ text[iy] \in DOMAIN YearNo
        THEN [year |-> YearNo[text[iy]], month |-> MonthNo[text[ib]], day |-> DayNo[text[id]],
              hour |-> 0, minute |-> 0, second |-> 0]
        ELSE ValueError

\* d.replace(hour=23, minute=59, second=59)
EndOfDay(d) == [d EXCEPT !.hour = 23, !.minute = 59, !.second = 59]

\* a <= b on datetimes
DateTuple(d) == <<d.year, d.month, d.day, d.hour, d.minute, d.second>>

RECURSIVE LexLeq(_, _, _)
LexLeq(a, b, k) ==
    IF k > Len(a) THEN TRUE
    ELSE IF a[k] # b[k] THEN a[k] < b[k]
    ELSE LexLeq(a, b, k + 1)

DateLeq(a, b) == LexLeq(DateTuple(a), DateTuple(b), 1)

(***************************************************************************)
(* _most_transactions_from_data, src/stats.py:343-363.  A transaction is   *)
(* [team_name, date, added].  The result is Ok(list) or the ValueError of   *)
(* lines 347-349.                                                          *)
(***************************************************************************)
\* lines 345-349: the start and end of the period, or the ValueError raised by
\* the unpacking of the split or by strptime
ParseDateRange(date_range) ==
    LET parts == Split(Strip(date_range, {"(", ")"}), <<" ", "-", " ">>)
        start == strptime(Strip(parts[1], {" "}))
        end == strptime(Strip(parts[2], {" "}))
    IN  IF Len(parts) # 2 THEN ValueError
        ELSE IF Raised(start) THEN ValueError
        ELSE IF Raised(end) THEN ValueError
        ELSE [start |-> start, end |-> EndOfDay(end)]

\* lines 355-359: the datetime of the transaction, ValueError (strptime) or
\* IndexError (no second part), both caught by the caller
TxnDate(date) ==
    LET parts == Split(date, <<",">>)
    IN  IF Len(parts) < 2 THEN IndexError
        ELSE strptime(Strip(parts[1], {" "}) \o <<",">> \o Strip(parts[2], {" "}))

\* lines 352-361: counts, a Counter with its insertion order
RECURSIVE CountLoop(_, _, _, _)
CountLoop(txns, range, k, counts) ==
    IF k > Len(txns) THEN counts
    ELSE LET t == txns[k]
             txn_date == TxnDate(t.date)
             old == IF t.team_name \in DOMAIN counts.val THEN counts.val[t.team_name] ELSE 0
         IN  IF t.date = <<>> THEN CountLoop(txns, range, k + 1, counts)
             ELSE IF Raised(txn_date) THEN CountLoop(txns, range, k + 1, counts)
             ELSE IF DateLeq(range.start, txn_date) /\ DateLeq(txn_date, range.end)
             THEN CountLoop(txns, range, k + 1,
                      [keys |-> KeysPut(counts.keys, t.team_name),
                       val |-> DictPut(counts.val, t.team_name, old + 1)])
             ELSE CountLoop(txns, range, k + 1, counts)

\* counts.most_common(): descending by count, equal counts in insertion order
RECURSIVE InsertDesc(_, _)
InsertDesc(sorted, e) ==
    IF sorted = <<>> THEN <<e>>
    ELSE IF Head(sorted).count >= e.count THEN <<Head(sorted)>> \o InsertDesc(Tail(sorted), e)
    ELSE <<e>> \o sorted

RECURSIVE MostCommon(_, _, _)
MostCommon(counts, k, sorted) ==
    IF k > Len(counts.keys) THEN sorted
    ELSE MostCommon(counts, k + 1,
             InsertDesc(sorted, [team |-> counts.keys[k], count |-> counts.val[counts.keys[k]]]))

\* _most_transactions_from_data without the try/except of lines 355-359: the
\* first transaction whose date does not parse ends the call
RECURSIVE FirstBadDate(_, _)
FirstBadDate(txns, k) ==
    IF k > Len(txns) THEN Ok(<<>>)
    ELSE IF txns[k].date # <<>> /\ Raised(TxnDate(txns[k].date)) THEN TxnDate(txns[k].date)
    ELSE FirstBadDate(txns, k + 1)

_most_transactions_from_data_NoExcept(txns, period) ==
    LET range == ParseDateRange(period.date_range)
    IN  IF Raised(range) THEN range
        ELSE IF Raised(FirstBadDate(txns, 1)) THEN FirstBadDate(txns, 1)
        ELSE Ok(MostCommon(CountLoop(txns, range, 1, [keys |-> <<>>, val |-> EmptyDict]),
                           1, <<>>))

_most_transactions_from_data(txns, period) ==
    LET range == ParseDateRange(period.date_range)
    IN  IF Raised(range) THEN range
        ELSE Ok(MostCommon(CountLoop(txns, range, 1, [keys |-> <<>>, val |-> EmptyDict]),
                           1, <<>>))

(***************************************************************************)
(* FantraxClient.fetch_period_data, src/fantrax_client.py:67-96: the       *)
(* standings of the period, those of the period before it (None for        *)
(* period 1) and the transactions, out of what the provider holds.         *)
(***************************************************************************)
\* fetch_period_data asking for the previous standings of every period
fetch_period_data_AlwaysPrev(provider, period_num) ==
    [standings |-> provider.standings,
     prev_standings |-> Some(provider.prev_standings),
     transactions |-> provider.transactions]

fetch_period_data(provider, period_num) ==
    [standings |-> provider.standings,
     prev_standings |-> IF period_num > 1 THEN Some(provider.prev_standings) ELSE None,
     transactions |-> provider.transactions]

(***************************************************************************)
(* compute_weekly_stats, src/stats.py:14-49.  period_num is None or        *)
(* Some(n).  The result is the error dict, the full dict, or the exception *)
(* that left the call.                                                     *)
(***************************************************************************)
\* line 24: next((p for p in schedule if p["period_num"] == period_num), None)
RECURSIVE FindPeriod(_, _, _)
FindPeriod(sched, n, k) ==
    IF k > Len(sched) THEN None
    ELSE IF sched[k].period_num = n THEN sched[k]
    ELSE FindPeriod(sched, n, k + 1)

\* lines 21-24
ResolvePeriod(sched, period_num) ==
    IF IsNone(period_num) THEN _latest_completed(sched)
    ELSE FindPeriod(sched, period_num.v, 1)

NoCompletedPeriod == [error |-> "No completed period found"]

\* lines 30-49, for the resolved period
WeeklyStats(sched, provider, period) ==
    LET b == fetch_period_data(provider, period.period_num)
        most_transactions == _most_transactions_from_data(b.transactions, period)
    IN  IF Raised(most_transactions) THEN most_transactions
        ELSE [period |-> period,
              total_periods |-> Len(sched),
              standings |-> b.standings,
              standings_movement |-> _standings_movement(b.standings, b.prev_standings),
              biggest_blowout |-> _biggest_blowout(period),
              dominant_performance |-> _dominant_performance(period),
              category_kings |-> _category_kings(period),
              all_play_record |-> _all_play_record(sched, period.period_num),
              weekly_all_play |-> _weekly_all_play(period),
              streaks |-> _streaks(sched, period.period_num),
              luckiest_unluckiest |-> _luck_rating(b.standings, sched, period.period_num),
              category_sweeps |-> _category_sweeps(period),
              most_transactions |-> most_transactions.val]

compute_weekly_stats(sched, provider, period_num) ==
    LET target == ResolvePeriod(sched, period_num)
    IN  IF target = None THEN NoCompletedPeriod
        ELSE IF target.matchups = <<>> THEN NoCompletedPeriod
        ELSE WeeklyStats(sched, provider, target)

\* line 26: not period or not period["matchups"]
NoTarget(target) == IF target = None THEN TRUE ELSE target.matchups = <<>>

\* line 19: client.schedule()
ScheduleRequest == [call |-> "schedule"]

\* line 30: client.fetch_period_data(period["period_num"])
FetchRequest(period_num) == [call |-> "fetch_period_data", period_num |-> period_num]

\* the standings, the previous standings and the transactions asked for one
\* after the other, each with a fetch of its own
BatchRequests_OnePerTable(period_num) ==
    <<FetchRequest(period_num), FetchRequest(period_num - 1), FetchRequest(period_num)>>

\* lines 29-33: one batch fetch for the three tables
BatchRequests(period_num) == <<FetchRequest(period_num)>>

\* the requests of one call, in order
ClientRequests(sched, period_num) ==
    LET target == ResolvePeriod(sched, period_num)
    IN  <<ScheduleRequest>>
            \o (IF NoTarget(target) THEN <<>> ELSE BatchRequests(target.period_num))

(***************************************************************************)
(* The provider's data.  FantraxClient.schedule()                          *)
(* (src/fantrax_client.py:143-233) gives every matchup of a period the     *)
(* category names of the period's table header, in header order, and takes *)
(* the period number from the caption; the tables come in season order.    *)
(* The league has four teams; the k-th matchup of a period pairs the teams  *)
(* 2k-1 and 2k, so a period has at most two matchups.                      *)
(***************************************************************************)
Categories == <<"Innings Pitched", "Earned Run Average", "Home Runs">>
TeamNames == <<"A", "B", "C", "D">>
MatchupsPerPeriod == Len(TeamNames) \div 2

CatValues(ip, era, hr) ==
    [c \in Range(Categories) |->
        IF c = "Innings Pitched" THEN ip ELSE IF c = "Earned Run Average" THEN era ELSE hr]

\* src/fantrax_client.py:203-219; the home side's record mirrors the away side's
Matchup(k, wlt, away_cats, home_cats) ==
    [away_team_name |-> TeamNames[2 * k - 1], home_team_name |-> TeamNames[2 * k],
     away_wins |-> wlt[1], away_losses |-> wlt[2], away_ties |-> wlt[3],
     home_wins |-> wlt[2], home_losses |-> wlt[1], home_ties |-> wlt[3],
     away_cats |-> away_cats, home_cats |-> home_cats,
     categories |-> Categories]

GoodRange == <<"(", "Mon", " ", "Jun", " ", "16", ",", " ", "2025", " ", "-", " ",
               "Sun", " ", "Jun", " ", "22", ",", " ", "2025", ")">>

\* src/fantrax_client.py:222-231
Period(n, date_range) ==
    [period_num |-> n, date_range |-> date_range, matchups |-> <<>>]

DefaultStandings ==
    <<[team_name |-> "A", rank |-> 1, wins |-> 1, losses |-> 0, ties |-> 0],
      [team_name |-> "B", rank |-> 2, wins |-> 0, losses |-> 1, ties |-> 0]>>
DefaultPrevStandings ==
    <<[team_name |-> "B", rank |-> 1, wins |-> 1, losses |-> 0, ties |-> 0],
      [team_name |-> "A", rank |-> 2, wins |-> 0, losses |-> 1, ties |-> 0]>>
DefaultProvider ==
    [standings |-> DefaultStandings, prev_standings |-> DefaultPrevStandings,
     transactions |-> <<>>]

\* the matchups of a season: not yet scored, won 3-0-0 by the away side, won
\* 2-1-0 by the home side, tied 1-1-1
SeasonMatchups ==
    {[wlt |-> <<0, 0, 0>>, away |-> CatValues("0", "0", "0"), home |-> CatValues("0", "0", "0")],
     [wlt |-> <<3, 0, 0>>, away |-> CatValues("5", "3", "5"), home |-> CatValues("3", "5", "3")],
     [wlt |-> <<1, 2, 0>>, away |-> CatValues("5", "5", "3"), home |-> CatValues("3", "3", "5")],
     [wlt |-> <<1, 1, 1>>, away |-> CatValues("5", "3", "3"), home |-> CatValues("5", "5", "5")]}

\* no check_once has run: nothing in the provider's lists, in Firestore or on
\* Discord
NoWatcher ==
    /\ feed = [txns |-> <<>>, trades |-> <<>>]
    /\ store = [seen_ids |-> {}, seeded |-> FALSE]
    /\ discord = <<>>
    /\ runs = <<>>

\* the period_num arguments: None, a period of the schedule, one past it
PeriodArgs == {None} \cup {Some(n) : n \in 1..(MaxPeriods + 1)}

(***************************************************************************)
(* The season: the provider's schedule grows period by period and matchup  *)
(* by matchup; a call of compute_weekly_stats ends the run.                *)
(***************************************************************************)
Init ==
    /\ schedule = <<>>
    /\ period_arg = None
    /\ batch = DefaultProvider
    /\ result = NoResult
    /\ pc = "build"
    /\ requests = <<>>
    /\ target_period = None
    /\ NoWatcher

AddPeriod ==
    /\ pc = "build"
    /\ Len(schedule) < MaxPeriods
    /\ schedule' = Append(schedule, Period(Len(schedule) + 1, GoodRange))
    /\ UNCHANGED <<period_arg, batch, result, pc, requests, target_period>>
    /\ UNCHANGED watcher_vars

AppendMatchup(sched, m) ==
    [sched EXCEPT ![Len(sched)].matchups = Append(@, m)]

AddMatchup ==
    /\ pc = "build"
    /\ schedule # <<>>
    /\ Len(schedule[Len(schedule)].matchups) < MatchupsPerPeriod
    /\ \E kind \in SeasonMatchups :
          schedule' = AppendMatchup(schedule,
                          Matchup(Len(schedule[Len(schedule)].matchups) + 1,
                                  kind.wlt, kind.away, kind.home))
    /\ UNCHANGED <<period_arg, batch, result, pc, requests, target_period>>
    /\ UNCHANGED watcher_vars

\* a call compute_weekly_stats(client, period_num) with period_num among args
Call(args) ==
    /\ pc = "build"
    /\ \E arg \in args :
          /\ period_arg' = arg
          /\ requests' = ClientRequests(schedule, arg)
          /\ target_period' = ResolvePeriod(schedule, arg)
          /\ result' = compute_weekly_stats(schedule, batch, arg)
    /\ pc' = "done"
    /\ UNCHANGED <<schedule, batch>>
    /\ UNCHANGED watcher_vars

Compute == Call(PeriodArgs)

Next == AddPeriod \/ AddMatchup \/ Compute

Spec == Init /\ [][Next]_vars

(***************************************************************************)
(* One week: a single period whose matchups carry every combination of     *)
(* innings pitched (none or some), a lower-is-better value and a           *)
(* higher-is-better value, numeric or not.                                 *)
(***************************************************************************)
WeekAwayValues ==
    {CatValues(ip, era, hr) : ip \in {"0", "5"}, era \in {"3", "5", "-"}, hr \in {"5", "-"}}
WeekHomeValues ==
    {CatValues("5", "5", "3"), CatValues("0", "3", "5"), CatValues("5", "3", "-")}

InitWeek ==
    /\ schedule = <<Period(1, GoodRange)>>
    /\ period_arg = None
    /\ batch = DefaultProvider
    /\ result = NoResult
    /\ pc = "build"
    /\ requests = <<>>
    /\ target_period = None
    /\ NoWatcher

AddWeekMatchup ==
    /\ pc = "build"
    /\ Len(schedule[1].matchups) < MatchupsPerPeriod
    /\ \E away \in WeekAwayValues, home \in WeekHomeValues :
          schedule' = AppendMatchup(schedule,
                          Matchup(Len(schedule[1].matchups) + 1, <<2, 1, 0>>, away, home))
    /\ UNCHANGED <<period_arg, batch, result, pc, requests, target_period>>
    /\ UNCHANGED watcher_vars

ComputeLatest == Call({None})

NextWeek == AddWeekMatchup \/ ComputeLatest

SpecWeek == InitWeek /\ [][NextWeek]_vars

(***************************************************************************)
(* The transactions of one scored week: the period's date range is the     *)
(* table's subCaption (src/fantrax_client.py:158), "" when the table has   *)
(* none, and the provider's transaction list grows record by record.       *)
(***************************************************************************)
DateRanges ==
    {GoodRange,
     <<>>,
     <<"(", "Jun", " ", "16", " ", "-", " ", "Jun", " ", "22", ")">>}

TxnDates ==
    {<<"Wed", " ", "Jun", " ", "18", ",", " ", "2025", ",", " ", "10:00am">>,
     <<"Wed", " ", "Jun", " ", "25", ",", " ", "2025", ",", " ", "9:00pm">>,
     <<"yesterday">>,
     <<>>}

TxnRecords ==
    {[team_name |-> t, date |-> d, added |-> a] :
        t \in {"A", "B"}, d \in TxnDates, a \in BOOLEAN}

ScoredWeek(date_range) ==
    <<[Period(1, date_range) EXCEPT
          !.matchups = <<Matchup(1, <<2, 1, 0>>, CatValues("5", "3", "3"),
                                 CatValues("3", "5", "5"))>>]>>

InitTxn ==
    /\ schedule \in {ScoredWeek(dr) : dr \in DateRanges}
    /\ period_arg = None
    /\ batch = DefaultProvider
    /\ result = NoResult
    /\ pc = "build"
    /\ requests = <<>>
    /\ target_period = None
    /\ NoWatcher

AddTxn ==
    /\ pc = "build"
    /\ Len(batch.transactions) < MaxTxns
    /\ \E t \in TxnRecords : batch' = [batch EXCEPT !.transactions = Append(@, t)]
    /\ UNCHANGED <<schedule, period_arg, result, pc, requests, target_period>>
    /\ UNCHANGED watcher_vars

NextTxn == AddTxn \/ ComputeLatest

SpecTxn == InitTxn /\ [][NextTxn]_vars

(***************************************************************************)
(* The standings of a two-period season.  FantraxClient._parse_standings   *)
(* (src/fantrax_client.py:113-139) gives one row per team of the           *)
(* provider's table, in table order; ranks follow that order.  A team may  *)
(* be listed that no matchup of the schedule names ("E").  When the        *)
(* season moves on, the standings read so far are those of the previous    *)
(* period and the teams have changed places; rows read after that are of   *)
(* teams the previous standings do not list.                               *)
(***************************************************************************)
StandingNames == {"A", "B", "C", "E"}
StandingWins == {0, 1}

StandingRow(name, rank, wins) ==
    [team_name |-> name, rank |-> rank, wins |-> wins, losses |-> 1 - wins, ties |-> 0]

SeasonOfTwo ==
    <<[Period(1, GoodRange) EXCEPT
          !.matchups = <<Matchup(1, <<3, 0, 0>>, CatValues("5", "3", "5"),
                                 CatValues("3", "5", "3")),
                         Matchup(2, <<1, 1, 1>>, CatValues("5", "3", "3"),
                                 CatValues("5", "5", "5"))>>],
      [Period(2, GoodRange) EXCEPT
          !.matchups = <<Matchup(1, <<1, 2, 0>>, CatValues("5", "5", "3"),
                                 CatValues("3", "3", "5")),
                         Matchup(2, <<3, 0, 0>>, CatValues("5", "3", "5"),
                                 CatValues("3", "5", "3"))>>]>>

\* the rows of a table whose first row has moved to the bottom
Rotated(rows) ==
    [k \in 1..Len(rows) |->
        [rows[(k % Len(rows)) + 1] EXCEPT !.rank = k]]

InitStandings ==
    /\ schedule = SeasonOfTwo
    /\ period_arg = None
    /\ batch = [standings |-> <<>>, prev_standings |-> <<>>, transactions |-> <<>>]
    /\ result = NoResult
    /\ pc = "build"
    /\ requests = <<>>
    /\ target_period = None
    /\ NoWatcher

AddStanding ==
    /\ pc = "build"
    /\ Len(batch.standings) < MaxStandings
    /\ \E name \in StandingNames, wins \in StandingWins :
          /\ \A k \in 1..Len(batch.standings) : batch.standings[k].team_name # name
          /\ batch' = [batch EXCEPT !.standings =
                          Append(@, StandingRow(name, Len(batch.standings) + 1, wins))]
    /\ UNCHANGED <<schedule, period_arg, result, pc, requests, target_period>>
    /\ UNCHANGED watcher_vars

NewStandings ==
    /\ pc = "build"
    /\ batch.standings # <<>>
    /\ batch.prev_standings = <<>>
    /\ batch' = [batch EXCEPT !.prev_standings = batch.standings,
                              !.standings = Rotated(batch.standings)]
    /\ UNCHANGED <<schedule, period_arg, result, pc, requests, target_period>>
    /\ UNCHANGED watcher_vars

ComputePeriod == Call({Some(n) : n \in 1..Len(schedule)})

NextStandings == AddStanding \/ NewStandings \/ ComputePeriod

SpecStandings == InitStandings /\ [][NextStandings]_vars

(***************************************************************************)
(* The records of one period.  The W, L and T cells of a matchup are read  *)
(* on their own (src/fantrax_client.py:208-214): a matchup not yet scored  *)
(* has 0-0-0, a scored one has decided the MaxCats categories the league   *)
(* scores (the three value columns above are some of them).                *)
(***************************************************************************)
MatchupRecords ==
    {wlt \in (0..MaxCats) \X (0..MaxCats) \X (0..MaxCats) :
        wlt[1] + wlt[2] + wlt[3] \in {0, MaxCats}}

InitRecords ==
    /\ schedule = <<Period(1, GoodRange)>>
    /\ period_arg = None
    /\ batch = DefaultProvider
    /\ result = NoResult
    /\ pc = "build"
    /\ requests = <<>>
    /\ target_period = None
    /\ NoWatcher

AddRecordMatchup ==
    /\ pc = "build"
    /\ Len(schedule[1].matchups) < MatchupsPerPeriod
    /\ \E wlt \in MatchupRecords :
          schedule' = AppendMatchup(schedule,
                          Matchup(Len(schedule[1].matchups) + 1, wlt,
                                  CatValues("5", "3", "5"), CatValues("3", "5", "3")))
    /\ UNCHANGED <<period_arg, batch, result, pc, requests, target_period>>
    /\ UNCHANGED watcher_vars

NextRecords == AddRecordMatchup \/ ComputePeriod

SpecRecords == InitRecords /\ [][NextRecords]_vars

(***************************************************************************)
(* A run of weeks between two teams: every period of the schedule holds    *)
(* the one matchup of A and B, with any of the season's outcomes.          *)
(***************************************************************************)
InitStreak ==
    /\ schedule = <<>>
    /\ period_arg = None
    /\ batch = DefaultProvider
    /\ result = NoResult
    /\ pc = "build"
    /\ requests = <<>>
    /\ target_period = None
    /\ NoWatcher

AddStreakWeek ==
    /\ pc = "build"
    /\ Len(schedule) < MaxWeeks
    /\ \E kind \in SeasonMatchups :
          schedule' = AppendMatchup(Append(schedule, Period(Len(schedule) + 1, GoodRange)),
                                    Matchup(1, kind.wlt, kind.away, kind.home))
    /\ UNCHANGED <<period_arg, batch, result, pc, requests, target_period>>
    /\ UNCHANGED watcher_vars

NextStreak == AddStreakWeek \/ ComputePeriod

SpecStreak == InitStreak /\ [][NextStreak]_vars

(***************************************************************************)
(* compute_weekly_stats step by step, src/stats.py:19-49: the schedule is   *)
(* fetched, the target period resolved, and then either the error returned *)
(* or the batch fetched and the metrics computed.  The schedule is a run of *)
(* weeks of A against B, some of them without a matchup yet.               *)
(***************************************************************************)
AddEmptyWeek ==
    /\ pc = "build"
    /\ Len(schedule) < MaxWeeks
    /\ schedule' = Append(schedule, Period(Len(schedule) + 1, GoodRange))
    /\ UNCHANGED <<period_arg, batch, result, pc, requests, target_period>>
    /\ UNCHANGED watcher_vars

\* line 19
FetchSchedule ==
    /\ pc = "build"
    /\ \E arg \in {None} \cup {Some(n) : n \in 1..(MaxWeeks + 1)} : period_arg' = arg
    /\ requests' = Append(requests, ScheduleRequest)
    /\ pc' = "resolve"
    /\ UNCHANGED <<schedule, batch, result, target_period>>
    /\ UNCHANGED watcher_vars

\* lines 21-24
Resolve ==
    /\ pc = "resolve"
    /\ target_period' = ResolvePeriod(schedule, period_arg)
    /\ pc' = "check"
    /\ UNCHANGED <<schedule, period_arg, batch, result, requests>>
    /\ UNCHANGED watcher_vars

\* lines 26-27
ReturnError ==
    /\ pc = "check"
    /\ NoTarget(target_period)
    /\ result' = NoCompletedPeriod
    /\ pc' = "done"
    /\ UNCHANGED <<schedule, period_arg, batch, requests, target_period>>
    /\ UNCHANGED watcher_vars

\* lines 29-33
FetchBatch ==
    /\ pc = "check"
    /\ ~NoTarget(target_period)
    /\ requests' = requests \o BatchRequests(target_period.period_num)
    /\ pc' = "metrics"
    /\ UNCHANGED <<schedule, period_arg, batch, result, target_period>>
    /\ UNCHANGED watcher_vars

\* lines 35-49
Metrics ==
    /\ pc = "metrics"
    /\ result' = WeeklyStats(schedule, batch, target_period)
    /\ pc' = "done"
    /\ UNCHANGED <<schedule, period_arg, batch, requests, target_period>>
    /\ UNCHANGED watcher_vars

NextSteps ==
    \/ AddStreakWeek \/ AddEmptyWeek
    \/ FetchSchedule \/ Resolve \/ ReturnError \/ FetchBatch \/ Metrics

SpecSteps == InitStreak /\ [][NextSteps]_vars

(***************************************************************************)
(* The objects behind a call.  Python passes the schedule by reference:    *)
(* cats = m[f"{side}_cats"] (src/stats.py:150) is the provider's own dict, *)
(* and a store through a name bound to it would change the schedule.       *)
(* _collect_team_cats is followed here store by store.  objs.cats_of[k] is *)
(* the cats dict of side k of the period (input order), objs.dicts[name]   *)
(* a dict the function created, and objs.team_cats[name] tells what        *)
(* team_cats[name] is bound to: 0 for the created dict, k for the cats     *)
(* dict of side k.  A dict item is the provider's text or a float.         *)
(***************************************************************************)
TextItem(t) == [text |-> t]
FloatItem(f) == [float |-> f]

StartObjects(period) ==
    [cats_of |-> [k \in 1..(2 * Len(period.matchups)) |->
                     LET raw == SideCats(period.matchups[(k + 1) \div 2], Sides[2 - (k % 2)])
                     IN  [c \in DOMAIN raw |-> TextItem(raw[c])]],
     dicts |-> EmptyDict,
     team_cats |-> EmptyDict]

\* team_cats[name] = cats: the name bound to the provider's dict of side k
NewTeamDict_Aliased(objs, name, k) ==
    [objs EXCEPT !.team_cats = DictPut(@, name, k)]

\* line 151: team_cats[name] = {}
NewTeamDict(objs, name, k) ==
    [objs EXCEPT !.dicts = DictPut(@, name, EmptyDict),
                 !.team_cats = DictPut(@, name, 0)]

\* the dict team_cats[name] is bound to
TeamDict(objs, name) ==
    IF objs.team_cats[name] = 0 THEN objs.dicts[name]
    ELSE objs.cats_of[objs.team_cats[name]]

\* team_cats[name][cat] = item
StoreCat(objs, name, cat, item) ==
    IF objs.team_cats[name] = 0
    THEN [objs EXCEPT !.dicts[name] = DictPut(@, cat, item)]
    ELSE [objs EXCEPT !.cats_of[objs.team_cats[name]] = DictPut(@, cat, item)]

\* lines 152-156: for cat, info in cats.items(); info["value"] of an item
\* that is no provider text raises TypeError, which gives 0.0 as well
RECURSIVE StoreValues(_, _, _, _, _)
StoreValues(objs, name, k, cats, j) ==
    IF j > Len(cats) THEN objs
    ELSE LET info == objs.cats_of[k][cats[j]]
             value == IF "text" \in DOMAIN info THEN CollectValue(info.text) ELSE Zero
         IN  StoreValues(StoreCat(objs, name, cats[j], FloatItem(value)), name, k, cats, j + 1)

\* lines 158-161
RECURSIVE StorePenalty(_, _, _, _)
StorePenalty(objs, name, cats, j) ==
    IF j > Len(cats) THEN objs
    ELSE IF cats[j] \in LOWER_IS_BETTER
    THEN StorePenalty(StoreCat(objs, name, cats[j], FloatItem(Inf)), name, cats, j + 1)
    ELSE StorePenalty(objs, name, cats, j + 1)

\* lines 147-161
RECURSIVE StoreLoop(_, _, _)
StoreLoop(objs, matchups, k) ==
    IF k > 2 * Len(matchups) THEN objs
    ELSE LET m == matchups[(k + 1) \div 2]
             name == SideName(m, Sides[2 - (k % 2)])
             stored == StoreValues(NewTeamDict(objs, name, k), name, k, m.categories, 1)
             mine == TeamDict(stored, name)
             no_ip == \/ "Innings Pitched" \notin DOMAIN mine
                      \/ mine["Innings Pitched"] = FloatItem(Zero)
         IN  StoreLoop(IF no_ip THEN StorePenalty(stored, name, m.categories, 1) ELSE stored,
                       matchups, k + 1)

\* the objects after _collect_team_cats(period)
ObjectsAfter(period) == StoreLoop(StartObjects(period), period.matchups, 1)

\* the text a cats dict shows for an item after the call
ItemText(item) == IF "text" \in DOMAIN item THEN item.text ELSE "float"

\* the period as its objects now show it
PeriodAfter(period) ==
    LET objs == ObjectsAfter(period)
    IN  [period EXCEPT !.matchups =
            [i \in DOMAIN period.matchups |->
                [period.matchups[i] EXCEPT
                    !.away_cats = [c \in DOMAIN @ |-> ItemText(objs.cats_of[2 * i - 1][c])],
                    !.home_cats = [c \in DOMAIN @ |-> ItemText(objs.cats_of[2 * i][c])]]]]

\* the schedule after _all_play_record, _weekly_all_play and _luck_rating have
\* collected the periods up to the target
ScheduleAfter(sched, through_period) ==
    [k \in DOMAIN sched |->
        IF sched[k].period_num <= through_period /\ sched[k].matchups # <<>>
        THEN PeriodAfter(sched[k]) ELSE sched[k]]

(***************************************************************************)
(* One week, with the call leaving the schedule as its stores leave it.    *)
(***************************************************************************)
ComputeInPlace ==
    /\ pc = "build"
    /\ period_arg' = None
    /\ result' = compute_weekly_stats(schedule, batch, None)
    /\ schedule' = IF "period" \in DOMAIN result'
                   THEN ScheduleAfter(schedule, result'.period.period_num)
                   ELSE schedule
    /\ requests' = ClientRequests(schedule, None)
    /\ target_period' = ResolvePeriod(schedule, None)
    /\ pc' = "done"
    /\ UNCHANGED batch
    /\ UNCHANGED watcher_vars

NextInPlace == AddWeekMatchup \/ ComputeInPlace

SpecInPlace == InitWeek /\ [][NextInPlace]_vars

(***************************************************************************)
(* The transaction watcher, src/transaction_watcher.py, with its state in  *)
(* Firestore, src/firestore_client.py.  check_once is followed statement   *)
(* by statement: every call to the provider, to Firestore or to Discord is *)
(* a step of its own, so that two invocations (src/main.py:15-28, one per  *)
(* scheduler trigger) can interleave.  A transaction set is known by its   *)
(* tx_set_id; the provider numbers them in the order they happen and lists *)
(* them newest first, transactions and trades in separate views.           *)
(***************************************************************************)
MaxTxnIds == 2
MaxTradeIds == 1
MaxChecks == 2

Invocations == {1, 2}

TxnId(n) == <<"txn", n>>
TradeId(n) == <<"trade", n>>

\* [t["tx_set_id"] for t in txns]
Ids(items) == [i \in DOMAIN items |-> items[i].tx_set_id]

\* lines 57 and 63: the ids of the transactions, then those of the trades
AllIds(txns, trades) == Ids(txns) \o Ids(trades)

\* src/firestore_client.py:54-58
has_been_seeded(st) == st.seeded

\* src/firestore_client.py:61-76
load_seen_ids(st, tx_set_ids) == {id \in Range(tx_set_ids) : id \in st.seen_ids}

\* src/firestore_client.py:79-89
save_seen_ids(st, new_ids) == [st EXCEPT !.seen_ids = @ \cup Range(new_ids)]

\* src/firestore_client.py:92-111
seed_seen_ids(st, all_ids) ==
    [seen_ids |-> st.seen_ids \cup Range(all_ids), seeded |-> TRUE]

\* the names src/firestore_client.py defines
firestore_client ==
    {"_get_db", "_seen_ids_collection", "has_been_seeded", "load_seen_ids",
     "save_seen_ids", "seed_seen_ids"}

\* src/transaction_watcher.py:20-25: from firestore_client import (...)
ImportedNames == {"has_any_seen_ids", "load_seen_ids", "save_seen_ids", "seed_seen_ids"}

\* the import of a name the module does not define raises ImportError
ImportError == ~(ImportedNames \subseteq firestore_client)

\* send_embed that takes every answer of Discord for a success
send_embed_AnyStatus(status) == TRUE

\* src/transaction_watcher.py:28-36: True on status 204
send_embed(status) == status = 204

\* the answers of Discord to a post: accepted, or refused (rate limited)
Statuses == {204, 429}

\* the items as they come, not reversed
reversed_NewestFirst(items) == items

\* reversed(items)
reversed(items) == [i \in DOMAIN items |-> items[Len(items) + 1 - i]]

\* lines 66-67: [t for t in txns if t["tx_set_id"] not in seen_ids]
NotSeen(items, seen_ids) ==
    LET unseen(t) == t.tx_set_id \notin seen_ids
    IN  SelectSeq(items, unseen)

\* lines 76 and 88: the order in which the loops take the new items
PostingOrder(new_txns, new_trades) ==
    Ids(reversed(new_txns)) \o Ids(reversed(new_trades))

\* a webhook URL is a non-empty string or None
WebhookUrls == {None, Some("https://discord.com/api/webhooks/1")}

\* an invocation that is not in check_once
IdleRun ==
    [pc |-> "idle", check |-> 0, dry_run |-> FALSE, webhook_url |-> None,
     txns |-> <<>>, trades |-> <<>>, seen_ids |-> {}, todo |-> <<>>,
     successfully_posted |-> <<>>, outcome |-> "none"]

\* the invocation after check_once has returned or raised: its locals are gone
EndedRun(run, outcome) == [IdleRun EXCEPT !.check = run.check, !.outcome = outcome]

\* the number of check_once calls so far
Checks == Max(runs[1].check, runs[2].check)

\* the statistics engine is not part of the watcher
NoStats ==
    /\ schedule = <<>>
    /\ period_arg = None
    /\ batch = DefaultProvider
    /\ result = NoResult
    /\ pc = "build"
    /\ requests = <<>>
    /\ target_period = None

InitWatcher ==
    /\ NoStats
    /\ feed = [txns |-> <<>>, trades |-> <<>>]
    /\ store = [seen_ids |-> {}, seeded |-> FALSE]
    /\ discord = <<>>
    /\ runs = [r \in Invocations |-> IdleRun]

\* the league as the watcher finds it: not seeded, or seeded by an earlier
\* check_once that found the provider's lists empty
InitLeague ==
    /\ NoStats
    /\ feed = [txns |-> <<>>, trades |-> <<>>]
    /\ store \in {[seen_ids |-> {}, seeded |-> seeded] : seeded \in BOOLEAN}
    /\ discord = <<>>
    /\ runs = [r \in Invocations |-> IdleRun]

\* the provider lists a new transaction first
NewTransaction ==
    /\ Len(feed.txns) < MaxTxnIds
    /\ feed' = [feed EXCEPT !.txns = <<[tx_set_id |-> TxnId(Len(@) + 1)]>> \o @]
    /\ UNCHANGED <<store, discord, runs>>
    /\ UNCHANGED stats_vars

\* the provider lists a new trade first
NewTrade ==
    /\ Len(feed.trades) < MaxTradeIds
    /\ feed' = [feed EXCEPT !.trades = <<[tx_set_id |-> TradeId(Len(@) + 1)]>> \o @]
    /\ UNCHANGED <<store, discord, runs>>
    /\ UNCHANGED stats_vars

\* a trigger: the process loads transaction_watcher (lines 18-25) and calls
\* check_once, which fetches the transactions and the trades (lines 52-53)
Invoke(r, import_error) ==
    /\ runs[r].pc = "idle"
    /\ Checks < MaxChecks
    /\ \E dry_run \in BOOLEAN, webhook_url \in WebhookUrls :
          runs' = [runs EXCEPT ![r] =
                      IF import_error
                      THEN [IdleRun EXCEPT !.check = Checks + 1, !.dry_run = dry_run,
                                           !.webhook_url = webhook_url,
                                           !.outcome = "ImportError"]
                      ELSE [IdleRun EXCEPT !.pc = "detect", !.check = Checks + 1,
                                           !.dry_run = dry_run,
                                           !.webhook_url = webhook_url,
                                           !.txns = feed.txns, !.trades = feed.trades,
                                           !.outcome = "running"]]
    /\ UNCHANGED <<feed, store, discord>>
    /\ UNCHANGED stats_vars

\* the watcher as src/ has it
Trigger == \E r \in Invocations : Invoke(r, ImportError)

NextImport == NewTransaction \/ NewTrade \/ Trigger

SpecImport == InitWatcher /\ [][NextImport]_vars

\* check_once entered, the module loaded; a trigger can fire while an earlier
\* invocation is still running
Start(r) == Invoke(r, FALSE)

\* check_once entered while no other invocation is running
StartAlone(r) ==
    /\ \A q \in Invocations : runs[q].pc = "idle"
    /\ Invoke(r, FALSE)

\* line 56, the first-run detection; the name has_any_seen_ids stands for the
\* detection firestore_client defines, has_been_seeded
Detect(r) ==
    /\ runs[r].pc = "detect"
    /\ runs' = [runs EXCEPT ![r].pc = IF ~has_been_seeded(store) THEN "seed" ELSE "load"]
    /\ UNCHANGED <<feed, store, discord>>
    /\ UNCHANGED stats_vars

\* lines 57-60
Seed(r) ==
    /\ runs[r].pc = "seed"
    /\ store' = seed_seen_ids(store, AllIds(runs[r].txns, runs[r].trades))
    /\ runs' = [runs EXCEPT ![r] = EndedRun(@, "seeded")]
    /\ UNCHANGED <<feed, discord>>
    /\ UNCHANGED stats_vars

\* lines 63-74
Load(r) ==
    /\ runs[r].pc = "load"
    /\ LET seen_ids == load_seen_ids(store, AllIds(runs[r].txns, runs[r].trades))
           new_txns == NotSeen(runs[r].txns, seen_ids)
           new_trades == NotSeen(runs[r].trades, seen_ids)
       IN  runs' = [runs EXCEPT ![r] =
                       IF new_txns = <<>> /\ new_trades = <<>>
                       THEN EndedRun(@, "nothing new")
                       ELSE [@ EXCEPT !.pc = "post", !.seen_ids = seen_ids,
                                      !.todo = PostingOrder(new_txns, new_trades)]]
    /\ UNCHANGED <<feed, store, discord>>
    /\ UNCHANGED stats_vars

\* lines 80-83 and 93-96: the embed is printed and the id kept
Preview(r) ==
    /\ runs[r].pc = "post"
    /\ runs[r].todo # <<>>
    /\ runs[r].dry_run
    /\ runs' = [runs EXCEPT ![r].successfully_posted = Append(@, Head(runs[r].todo)),
                            ![r].todo = Tail(@)]
    /\ UNCHANGED <<feed, store, discord>>
    /\ UNCHANGED stats_vars

\* lines 84-86 and 97-99: the embed is sent and the id kept when send_embed
\* returns True
Send(r) ==
    /\ runs[r].pc = "post"
    /\ runs[r].todo # <<>>
    /\ ~runs[r].dry_run
    /\ ~IsNone(runs[r].webhook_url)
    /\ \E status \in Statuses :
          /\ discord' = IF status = 204
                        THEN Append(discord, [tx_set_id |-> Head(runs[r].todo),
                                              check |-> runs[r].check])
                        ELSE discord
          /\ runs' = [runs EXCEPT
                         ![r].successfully_posted =
                             IF send_embed(status) THEN Append(@, Head(runs[r].todo)) ELSE @,
                         ![r].todo = Tail(@)]
    /\ UNCHANGED <<feed, store>>
    /\ UNCHANGED stats_vars

\* neither branch of lines 80-86: not a dry run and no webhook URL
Skip(r) ==
    /\ runs[r].pc = "post"
    /\ runs[r].todo # <<>>
    /\ ~runs[r].dry_run
    /\ IsNone(runs[r].webhook_url)
    /\ runs' = [runs EXCEPT ![r].todo = Tail(@)]
    /\ UNCHANGED <<feed, store, discord>>
    /\ UNCHANGED stats_vars

\* line 30: requests.post raises (no connection); the exception leaves
\* check_once
SendRaises(r) ==
    /\ runs[r].pc = "post"
    /\ runs[r].todo # <<>>
    /\ ~runs[r].dry_run
    /\ ~IsNone(runs[r].webhook_url)
    /\ runs' = [runs EXCEPT ![r] = EndedRun(@, "raised")]
    /\ UNCHANGED <<feed, store, discord>>
    /\ UNCHANGED stats_vars

\* line 101
Save(r) ==
    /\ runs[r].pc = "post"
    /\ runs[r].todo = <<>>
    /\ store' = save_seen_ids(store, runs[r].successfully_posted)
    /\ runs' = [runs EXCEPT ![r] = EndedRun(@, "saved")]
    /\ UNCHANGED <<feed, discord>>
    /\ UNCHANGED stats_vars

\* src/firestore_client.py:89: batch.commit() raises; nothing is written
SaveRaises(r) ==
    /\ runs[r].pc = "post"
    /\ runs[r].todo = <<>>
    /\ runs[r].successfully_posted # <<>>
    /\ runs' = [runs EXCEPT ![r] = EndedRun(@, "raised")]
    /\ UNCHANGED <<feed, store, discord>>
    /\ UNCHANGED stats_vars

\* the steps of check_once after its entry
check_once(r) ==
    \/ Detect(r) \/ Seed(r) \/ Load(r)
    \/ Preview(r) \/ Send(r) \/ Skip(r) \/ SendRaises(r)
    \/ Save(r) \/ SaveRaises(r)

\* one invocation at a time: the polling loop of main(), lines 150-159
NextWatcher == NewTransaction \/ NewTrade \/ StartAlone(1) \/ check_once(1)

SpecWatcher == InitLeague /\ [][NextWatcher]_vars

\* invocations that overlap
NextOverlap ==
    NewTransaction \/ NewTrade \/ \E r \in Invocations : Start(r) \/ check_once(r)

SpecOverlap == InitLeague /\ [][NextOverlap]_vars

(***************************************************************************)
(* Properties.                                                             *)
(***************************************************************************)
\* the text values of a team in a period (every team plays once a period)
RawCats(p, team) ==
    LET i == CHOOSE i \in 1..Len(p.matchups) :
                 team \in {p.matchups[i].away_team_name, p.matchups[i].home_team_name}
    IN  IF p.matchups[i].away_team_name = team THEN p.matchups[i].away_cats
        ELSE p.matchups[i].home_cats

\* _simulate_h2h of two teams of a period on the single category c
H2HCat(tc, t1, t2, c) ==
    _simulate_h2h([x \in {c} |-> tc.cats[t1][c]], [x \in {c} |-> tc.cats[t2][c]])

Finite(v) == v[1] = 0

\* C1: in every period, for every two distinct teams T1 and T2,
\* _simulate_h2h(T2, T1) is _simulate_h2h(T1, T2) with wins and losses
\* exchanged and the same ties, and the all-play accumulation credits T1's wins
\* as T2's losses, T1's losses as T2's wins and the same ties to both.
C1_H2HSymmetric ==
    \A k \in DOMAIN schedule :
        LET tc == _collect_team_cats(schedule[k])
        IN  \A t1, t2 \in Range(tc.teams) :
                t1 # t2 =>
                    LET r == _simulate_h2h(tc.cats[t1], tc.cats[t2])
                        q == _simulate_h2h(tc.cats[t2], tc.cats[t1])
                        credited == CreditPair(EmptyDict, tc, t1, t2)
                    IN  /\ q = <<r[2], r[1], r[3]>>
                        /\ credited[t1].wins = credited[t2].losses
                        /\ credited[t1].losses = credited[t2].wins
                        /\ credited[t1].ties = credited[t2].ties

\* two teams of a period whose comparison has a win, a loss and a tie
C1_Witness ==
    /\ pc = "done"
    /\ \E k \in DOMAIN schedule :
          LET tc == _collect_team_cats(schedule[k])
          IN  \E t1, t2 \in Range(tc.teams) :
                  /\ t1 # t2
                  /\ _simulate_h2h(tc.cats[t1], tc.cats[t2]) = <<1, 1, 1>>

\* the record of a team in an all-play dict, 0-0-0 when the team is absent
RecOf(records, team) == IF team \in DOMAIN records THEN records[team] ELSE ZeroRecord

RecSum(a, b) ==
    [wins |-> a.wins + b.wins, losses |-> a.losses + b.losses, ties |-> a.ties + b.ties]

C3_LowerIsBetterInverts ==
    \A k \in DOMAIN schedule :
        LET tc == _collect_team_cats(schedule[k])
        IN  \A t1, t2 \in Range(tc.teams) : \A c \in Range(Categories) :
                LET v1 == tc.cats[t1][c]
                    v2 == tc.cats[t2][c]
                IN  (t1 # t2 /\ Finite(v1) /\ Finite(v2)) =>
                        H2HCat(tc, t1, t2, c) =
                            IF v1[2] = v2[2] THEN <<0, 0, 1>>
                            ELSE IF (c \in LOWER_IS_BETTER) = (v1[2] < v2[2]) THEN <<1, 0, 0>>
                            ELSE <<0, 1, 0>>

\* a team that beats another on the earned run average with the smaller value
\* and on the home runs with the larger one
C3_Witness ==
    /\ pc = "done"
    /\ \E t1, t2 \in Range(_collect_team_cats(schedule[1]).teams) :
          LET tc == _collect_team_cats(schedule[1])
          IN  /\ tc.cats[t1]["Earned Run Average"] = <<0, 3>>
              /\ tc.cats[t2]["Earned Run Average"] = <<0, 5>>
              /\ H2HCat(tc, t1, t2, "Earned Run Average") = <<1, 0, 0>>
              /\ tc.cats[t1]["Home Runs"] = <<0, 5>>
              /\ tc.cats[t2]["Home Runs"] = <<0, 3>>
              /\ H2HCat(tc, t1, t2, "Home Runs") = <<1, 0, 0>>

\* the innings pitched a team's text gives: none, or some
IPZero(raw) ==
    float_ok(raw["Innings Pitched"]) /\ FloatOf[raw["Innings Pitched"]] = 0
IPSome(raw) ==
    float_ok(raw["Innings Pitched"]) /\ FloatOf[raw["Innings Pitched"]] > 0

\* C4: in every period, a team whose Innings Pitched is 0 wins no
\* lower-is-better category against any opponent, whatever value it recorded:
\* it loses the category to an opponent with innings pitched and ties it with
\* an opponent that has 0 innings pitched too.
C4_ZeroInningsNeverWins ==
    \A k \in DOMAIN schedule :
        LET p == schedule[k]
            tc == _collect_team_cats(p)
        IN  \A t1, t2 \in Range(tc.teams) :
                (t1 # t2 /\ IPZero(RawCats(p, t1))) =>
                    /\ \A c \in LOWER_IS_BETTER \cap Range(Categories) :
                          /\ H2HCat(tc, t1, t2, c)[1] = 0
                          /\ IPSome(RawCats(p, t2)) => H2HCat(tc, t1, t2, c) = <<0, 1, 0>>
                          /\ IPZero(RawCats(p, t2)) => H2HCat(tc, t1, t2, c) = <<0, 0, 1>>
                    /\ _simulate_h2h(tc.cats[t1], tc.cats[t2])[1]
                          <= Cardinality(Range(Categories) \ LOWER_IS_BETTER)

\* a team without innings pitched whose recorded earned run average is lower
\* than that of an opponent with innings pitched
C4_Witness ==
    /\ pc = "done"
    /\ \E t1, t2 \in Range(_collect_team_cats(schedule[1]).teams) :
          /\ IPZero(RawCats(schedule[1], t1))
          /\ RawCats(schedule[1], t1)["Earned Run Average"] = "3"
          /\ IPSome(RawCats(schedule[1], t2))
          /\ RawCats(schedule[1], t2)["Earned Run Average"] = "5"
          /\ RecOf(result.weekly_all_play, t1).losses > 0

\* C5: a category whose value is not numeric for a team is skipped in that
\* team's pairings: two teams are compared on exactly the categories for which
\* both have a numeric value.
C5_NonNumericSkipped ==
    \A k \in DOMAIN schedule :
        LET p == schedule[k]
            tc == _collect_team_cats(p)
        IN  \A t1, t2 \in Range(tc.teams) :
                t1 # t2 =>
                    LET r == _simulate_h2h(tc.cats[t1], tc.cats[t2])
                    IN  r[1] + r[2] + r[3] =
                            Cardinality({c \in Range(Categories) :
                                            /\ float_ok(RawCats(p, t1)[c])
                                            /\ float_ok(RawCats(p, t2)[c])})

\* a matchup is scored when its wins + losses + ties is greater than zero
ScoredMatchup(m) == m.away_wins + m.away_losses + m.away_ties > 0

\* the schedule without its unscored matchups
ScoredSchedule(sched) ==
    [k \in DOMAIN sched |-> [sched[k] EXCEPT !.matchups = SelectSeq(@, ScoredMatchup)]]

\* C6: an unscored matchup contributes nothing to any metric: the streaks, the
\* all-play records, the blowout, the dominant performance, the category
\* leaders and the sweeps of a result are those of the schedule without its
\* unscored matchups.
C6_UnscoredContributesNothing ==
    (pc = "done" /\ "streaks" \in DOMAIN result) =>
        LET n == result.period.period_num
            scored == ScoredSchedule(schedule)
            p == FindPeriod(scored, n, 1)
        IN  /\ result.streaks = _streaks(scored, n)
            /\ result.all_play_record = _all_play_record(scored, n)
            /\ result.weekly_all_play = _weekly_all_play(p)
            /\ result.biggest_blowout = _biggest_blowout(p)
            /\ result.dominant_performance = _dominant_performance(p)
            /\ result.category_kings = _category_kings(p)
            /\ result.category_sweeps = _category_sweeps(p)

\* the periods _latest_completed may choose from
CompletedPeriods == {k \in DOMAIN schedule : FirstMatchupScored(schedule[k])}

ResultFields ==
    {"period", "total_periods", "standings", "standings_movement", "biggest_blowout",
     "dominant_performance", "category_kings", "all_play_record", "weekly_all_play",
     "streaks", "luckiest_unluckiest", "category_sweeps", "most_transactions"}

\* C8: compute_weekly_stats returns the no-completed-period error, and nothing
\* else, when the target period does not exist, has no matchups or has no
\* scored matchup, and a full result without an error field in every other case.
C8_ErrorIffNoScoredTarget ==
    pc = "done" =>
        LET target == ResolvePeriod(schedule, period_arg)
            scored == IF target = None THEN FALSE
                      ELSE \E i \in DOMAIN target.matchups : ScoredMatchup(target.matchups[i])
        IN  IF scored THEN DOMAIN result = ResultFields
            ELSE result = NoCompletedPeriod

\* C9: for a target period with scored matchups, an unparseable date range
\* does not abort compute_weekly_stats: it returns a result record whose
\* metrics other than the transaction volume are those computed with a
\* parseable date range.
C9_ParseFailureNeverAborts ==
    pc = "done" =>
        LET parseable == compute_weekly_stats([schedule EXCEPT ![1].date_range = GoodRange],
                                              batch, period_arg)
        IN  /\ ~Raised(result)
            /\ DOMAIN result = ResultFields
            /\ \A f \in ResultFields \ {"period", "most_transactions"} :
                  result[f] = parseable[f]

\* a date text the transaction count cannot use: empty, or TxnDate raises
Unparseable(date) == date = <<>> \/ Raised(TxnDate(date))

RemoveAt(s, i) == SubSeq(s, 1, i - 1) \o SubSeq(s, i + 1, Len(s))

\* C10: a transaction record with an unparseable date changes nothing: the
\* result of compute_weekly_stats is the result for the list without that
\* record.
C10_UnparseableTxnIgnored ==
    pc = "done" =>
        \A i \in DOMAIN batch.transactions :
            Unparseable(batch.transactions[i].date) =>
                result = compute_weekly_stats(schedule,
                             [batch EXCEPT !.transactions = RemoveAt(@, i)], period_arg)

\* a full result for a list of two records, one of them with a date text that
\* makes strptime raise
C10_Witness ==
    /\ pc = "done"
    /\ DOMAIN result = ResultFields
    /\ Len(batch.transactions) = 2
    /\ \E i \in DOMAIN batch.transactions :
          /\ batch.transactions[i].date # <<>>
          /\ Raised(TxnDate(batch.transactions[i].date))

\* a full result for the period numbered n
ResultFor(n) ==
    /\ pc = "done"
    /\ DOMAIN result = ResultFields
    /\ result.period.period_num = n

\* the row of a team in a standings table, None when it has none
RowOf(rows, name) ==
    IF \E k \in DOMAIN rows : rows[k].team_name = name
    THEN rows[CHOOSE k \in DOMAIN rows : rows[k].team_name = name]
    ELSE None

\* C11: for target period 1, for which no previous standings are fetched, the
\* standings movement has no entry for any team.
C11_NoMovementForFirstPeriod ==
    ResultFor(1) => DOMAIN result.standings_movement = {}

\* period 1 with three teams in the standings, while the provider does hold
\* standings of a period before
C11_Witness ==
    /\ ResultFor(1)
    /\ Len(result.standings) = MaxStandings
    /\ batch.prev_standings # <<>>
    /\ DOMAIN result.standings_movement = {}

\* C12: every movement value is the team's previous rank minus its current
\* rank, and a team of the current standings without a row in the previous
\* standings has no movement entry.
C12_MovementIsRankDifference ==
    (\E n \in 2..MaxPeriods : ResultFor(n)) =>
        \A k \in DOMAIN result.standings :
            LET s == result.standings[k]
                before == RowOf(batch.prev_standings, s.team_name)
            IN  IF before = None THEN s.team_name \notin DOMAIN result.standings_movement
                ELSE /\ s.team_name \in DOMAIN result.standings_movement
                     /\ result.standings_movement[s.team_name] = before.rank - s.rank

\* the rows of the result's standings whose team has an all-play record
Rated == {k \in DOMAIN result.standings :
             result.standings[k].team_name \in DOMAIN result.all_play_record}

\* the opponents the all-play counts are divided by
NumOpponents == Max(1, Len(result.standings) - 1)

\* actual wins minus normalized all-play wins of the k-th standings row
GamesBack(k) ==
    result.standings[k].wins
        - Round(result.all_play_record[result.standings[k].team_name].wins, NumOpponents)

Greatest == {k \in Rated : \A j \in Rated : GamesBack(j) <= GamesBack(k)}
Least == {k \in Rated : \A j \in Rated : GamesBack(k) <= GamesBack(j)}

\* the pick names the team of row k with that row's figure
Picks(pick, k) ==
    /\ ~IsNone(pick)
    /\ pick.v[1] = result.standings[k].team_name
    /\ pick.v[2].games_back = GamesBack(k)

\* C13: among the standings teams with an all-play record, the luckiest has
\* the greatest actual wins minus normalized all-play wins and the unluckiest
\* the least; without such a team both are absent.
C13_LuckiestGreatestUnluckiestLeast ==
    (pc = "done" /\ DOMAIN result = ResultFields) =>
        LET lu == result.luckiest_unluckiest
        IN  IF Rated = {} THEN IsNone(lu.luckiest) /\ IsNone(lu.unluckiest)
            ELSE /\ \E k \in Greatest : Picks(lu.luckiest, k)
                 /\ \E k \in Least : Picks(lu.unluckiest, k)

\* three rated teams and an unrated one, the luckiest neither first nor last
\* in the standings, the unluckiest another team
C13_Witness ==
    /\ pc = "done"
    /\ DOMAIN result = ResultFields
    /\ Cardinality(Rated) = 3
    /\ Len(result.standings) = 4
    /\ \E k \in Greatest : k \notin {1, Len(result.standings)}
                            /\ Picks(result.luckiest_unluckiest.luckiest, k)
    /\ Greatest \cap Least = {}

Min(S) == CHOOSE k \in S : \A j \in S : k <= j

\* C14: among several teams tied for the greatest figure the luckiest is the
\* one that comes first in the standings, and among several tied for the
\* least the unluckiest is the one that comes first in the standings.
C14_TiesGoToFirstInStandings ==
    (pc = "done" /\ DOMAIN result = ResultFields /\ Rated # {}) =>
        /\ Picks(result.luckiest_unluckiest.luckiest, Min(Greatest))
        /\ Picks(result.luckiest_unluckiest.unluckiest, Min(Least))

\* twice the distance of c * n from a, to compare with n
TwiceOff(c, a, n) == IF c * n >= a THEN 2 * (c * n - a) ELSE 2 * (a - c * n)

\* the normalized record of a pick is the nearest to its raw all-play record
NearestRecord(pick) ==
    LET raw == result.all_play_record[pick.v[1]]
        shown == pick.v[2].all_play_record
    IN  /\ TwiceOff(shown[1], raw.wins, NumOpponents) <= NumOpponents
        /\ TwiceOff(shown[2], raw.losses, NumOpponents) <= NumOpponents
        /\ TwiceOff(shown[3], raw.ties, NumOpponents) <= NumOpponents

\* C15: each normalized all-play component is an integer at most 1/2 away from
\* the raw count divided by the number of opponents, each on its own.
C15_NormalizedIsNearest ==
    (pc = "done" /\ DOMAIN result = ResultFields /\ Rated # {}) =>
        /\ NearestRecord(result.luckiest_unluckiest.luckiest)
        /\ NearestRecord(result.luckiest_unluckiest.unluckiest)

\* three opponents; one of the two picks has a raw loss count that leaves
\* remainder 2 and is rounded up, the other has normalized components that
\* do not add up to the raw total divided by the opponents
C15_Witness ==
    /\ pc = "done"
    /\ DOMAIN result = ResultFields
    /\ Rated # {}
    /\ NumOpponents = 3
    /\ \E up, off \in {result.luckiest_unluckiest.luckiest,
                       result.luckiest_unluckiest.unluckiest} :
          LET raw == result.all_play_record[up.v[1]]
              shown == up.v[2].all_play_record
              raw_off == result.all_play_record[off.v[1]]
              shown_off == off.v[2].all_play_record
          IN  /\ raw.losses % NumOpponents = 2
              /\ shown[2] = (raw.losses \div NumOpponents) + 1
              /\ (shown_off[1] + shown_off[2] + shown_off[3]) * NumOpponents
                     # raw_off.wins + raw_off.losses + raw_off.ties

\* the sides of the result's period in input order: matchup by matchup, away
\* before home; side k is the away side of matchup (k + 1) / 2 when k is odd
SideIndexes == 1..(2 * Len(result.period.matchups))
SideMatchup(k) == result.period.matchups[(k + 1) \div 2]
SideAt(k) == Sides[2 - (k % 2)]

\* twice wins - losses + 0.5 ties of side k
SideNet2(k) ==
    2 * SideWins(SideMatchup(k), SideAt(k)) - 2 * SideLosses(SideMatchup(k), SideAt(k))
        + SideTies(SideMatchup(k), SideAt(k))

\* the blowout entry names side k
IsSide(entry, k) ==
    /\ DOMAIN entry = {"team", "record", "net2"}
    /\ entry.team = SideName(SideMatchup(k), SideAt(k))
    /\ entry.record = <<SideWins(SideMatchup(k), SideAt(k)),
                        SideLosses(SideMatchup(k), SideAt(k)),
                        SideTies(SideMatchup(k), SideAt(k))>>
    /\ entry.net2 = SideNet2(k)

\* C16: the biggest winner is the first side in input order whose net is the
\* maximum over all sides of the period, the biggest loser the first whose net
\* is the minimum.
C16_BlowoutFirstOfExtremes ==
    (pc = "done" /\ DOMAIN result = ResultFields) =>
        /\ IsSide(result.biggest_blowout.winner,
                  Min({k \in SideIndexes : \A j \in SideIndexes : SideNet2(j) <= SideNet2(k)}))
        /\ IsSide(result.biggest_blowout.loser,
                  Min({k \in SideIndexes : \A j \in SideIndexes : SideNet2(k) <= SideNet2(j)}))

\* two scored matchups; the away sides tie for the greatest net, a half one,
\* the first of them is the winner; the home sides tie for the least
C16_Witness ==
    /\ pc = "done"
    /\ DOMAIN result = ResultFields
    /\ Len(result.period.matchups) = 2
    /\ SideNet2(1) = SideNet2(3)
    /\ SideNet2(1) % 2 = 1
    /\ SideNet2(2) = SideNet2(4)
    /\ SideNet2(1) > SideNet2(2)
    /\ IsSide(result.biggest_blowout.winner, 1)
    /\ IsSide(result.biggest_blowout.loser, 2)

\* C17: for a period with at least one matchup the dominant performance is
\* the first side in input order whose category wins are the most over all
\* sides of the period, also when the most is 0.
C17_DominantFirstOfMostWins ==
    (pc = "done" /\ DOMAIN result = ResultFields) =>
        LET wins(k) == SideWins(SideMatchup(k), SideAt(k))
            k == Min({i \in SideIndexes : \A j \in SideIndexes : wins(j) <= wins(i)})
            best == result.dominant_performance
        IN  /\ DOMAIN best = {"team", "opponent", "wins", "losses", "ties"}
            /\ best.team = SideName(SideMatchup(k), SideAt(k))
            /\ best.opponent = SideName(SideMatchup(k), Opp(SideAt(k)))
            /\ best.wins = wins(k)
            /\ best.losses = SideLosses(SideMatchup(k), SideAt(k))
            /\ best.ties = SideTies(SideMatchup(k), SideAt(k))

\* the sides a sweep list should hold: those with a total above zero and at
\* least 80% of it won
Sweepers ==
    {k \in SideIndexes :
        LET m == SideMatchup(k)
            total == SideWins(m, SideAt(k)) + SideLosses(m, SideAt(k)) + SideTies(m, SideAt(k))
        IN  total > 0 /\ 5 * SideWins(m, SideAt(k)) >= 4 * total}

\* C19: a side is in the sweeps exactly when its total is above zero and its
\* wins are at least 80% of it; it is there once, with its wins and total.
C19_SweepsAreEightyPercent ==
    (pc = "done" /\ DOMAIN result = ResultFields) =>
        LET sweeps == result.category_sweeps
            entries(k) == {i \in DOMAIN sweeps :
                              sweeps[i].team = SideName(SideMatchup(k), SideAt(k))}
        IN  \A k \in SideIndexes :
               IF k \in Sweepers
               THEN /\ Cardinality(entries(k)) = 1
                    /\ \A i \in entries(k) :
                          /\ sweeps[i].wins = SideWins(SideMatchup(k), SideAt(k))
                          /\ sweeps[i].total = SideWins(SideMatchup(k), SideAt(k))
                                 + SideLosses(SideMatchup(k), SideAt(k))
                                 + SideTies(SideMatchup(k), SideAt(k))
               ELSE entries(k) = {}

\* a side with exactly 80% of the categories is flagged, beside a side with
\* fewer that is not and a matchup not yet scored
C19_Witness ==
    /\ pc = "done"
    /\ DOMAIN result = ResultFields
    /\ Len(result.period.matchups) = 2
    /\ Sweepers = {1}
    /\ 5 * SideWins(SideMatchup(1), SideAt(1)) = 4 * MaxCats
    /\ SideWins(SideMatchup(3), SideAt(3)) = 0
    /\ SideLosses(SideMatchup(3), SideAt(3)) = 0
    /\ SideTies(SideMatchup(3), SideAt(3)) = 0
    /\ Len(result.category_sweeps) = 1
    /\ result.category_sweeps[1].team = "A"

\* the text of side k for a category, and the sides whose text is a number
SideText(k, c) == SideCats(SideMatchup(k), SideAt(k))[c]
Numeric(c) == {k \in SideIndexes : float_ok(SideText(k, c))}

\* C18: a category has a leader exactly when some side has a numeric value
\* for it; the leader is a side with a numeric value, and its value is the
\* least numeric value of the category when lower is better and the greatest
\* otherwise.
C18_KingsBestNumericValue ==
    (pc = "done" /\ DOMAIN result = ResultFields) =>
        \A c \in UNION {Range(result.period.matchups[i].categories) :
                           i \in DOMAIN result.period.matchups} :
            IF Numeric(c) = {} THEN c \notin DOMAIN result.category_kings
            ELSE /\ c \in DOMAIN result.category_kings
                 /\ \E k \in Numeric(c) :
                       /\ result.category_kings[c].team = SideName(SideMatchup(k), SideAt(k))
                       /\ result.category_kings[c].value = <<0, FloatOf[SideText(k, c)]>>
                       /\ \A j \in Numeric(c) :
                             IF c \in LOWER_IS_BETTER
                             THEN FloatOf[SideText(k, c)] <= FloatOf[SideText(j, c)]
                             ELSE FloatOf[SideText(k, c)] >= FloatOf[SideText(j, c)]

\* no side has a numeric Home Runs value, so it has no leader; the away side
\* of the first matchup has no numeric Earned Run Average and the leader of
\* this lower-is-better category is the home side, with 3 where a side of the
\* second matchup has 5
C18_Witness ==
    /\ pc = "done"
    /\ DOMAIN result = ResultFields
    /\ Numeric("Home Runs") = {}
    /\ "Home Runs" \notin DOMAIN result.category_kings
    /\ 1 \notin Numeric("Earned Run Average")
    /\ \E j \in Numeric("Earned Run Average") : SideText(j, "Earned Run Average") = "5"
    /\ result.category_kings["Earned Run Average"].team = "B"
    /\ result.category_kings["Earned Run Average"].value = float("3")

\* the periods up to the target in which a team has a matchup, and the
\* team's matchup in such a period (a team has at most one a period)
PlayedIn(team) ==
    {p \in DOMAIN schedule :
        /\ schedule[p].period_num <= result.period.period_num
        /\ \E i \in DOMAIN schedule[p].matchups :
              team \in {schedule[p].matchups[i].away_team_name,
                        schedule[p].matchups[i].home_team_name}}

MatchupOf(team, p) ==
    schedule[p].matchups[CHOOSE i \in DOMAIN schedule[p].matchups :
        team \in {schedule[p].matchups[i].away_team_name,
                  schedule[p].matchups[i].home_team_name}]

\* W, L or T of a team in its matchup of period p, by the sides' category wins
Outcome(team, p) ==
    LET m == MatchupOf(team, p)
        own == IF m.away_team_name = team THEN m.away_wins ELSE m.home_wins
        other == IF m.away_team_name = team THEN m.home_wins ELSE m.away_wins
    IN  IF own > other THEN "W" ELSE IF own < other THEN "L" ELSE "T"

DayOfText(date) == strptime(SubSeq(date, 1, 8))

\* the date text names a day within the date range, end days included
DatedWithin(date, date_range) ==
    LET range == ParseDateRange(date_range)
    IN  /\ Len(date) >= 8
        /\ ~Raised(DayOfText(date))
        /\ ~Raised(range)
        /\ DateLeq(range.start, DayOfText(date))
        /\ DateLeq(DayOfText(date), range.end)

\* the count the result reports for a team, 0 when it lists none
ReportedCount(team) ==
    IF \E i \in DOMAIN result.most_transactions : result.most_transactions[i].team = team
    THEN result.most_transactions[CHOOSE i \in DOMAIN result.most_transactions :
                                      result.most_transactions[i].team = team].count
    ELSE 0

\* C21: the transaction count reported for a team is the number of its
\* records that are additions and are dated within the target period's date
\* range, end days included.
C21_CountsAdditionsInRange ==
    (pc = "done" /\ DOMAIN result = ResultFields) =>
        \A team \in {batch.transactions[i].team_name : i \in DOMAIN batch.transactions} :
            ReportedCount(team) =
                Cardinality({i \in DOMAIN batch.transactions :
                                /\ batch.transactions[i].team_name = team
                                /\ batch.transactions[i].added
                                /\ DatedWithin(batch.transactions[i].date,
                                               result.period.date_range)})

\* C22: compute_weekly_stats leaves its inputs as they were: the schedule with
\* its periods, matchups and category values, the standings, the previous
\* standings and the transactions.
C22_InputsUnchanged ==
    [][pc' = "done" => (schedule' = schedule /\ batch' = batch)]_vars

\* after a call on a week with two matchups; a team without innings pitched
\* had inf stored for Earned Run Average, a team with a placeholder had 0.0
\* stored for Home Runs, in dicts of the call's own, which hold what
\* _collect_team_cats returns
C22_Witness ==
    /\ pc = "done"
    /\ "period" \in DOMAIN result
    /\ Len(schedule[1].matchups) = 2
    /\ LET objs == ObjectsAfter(schedule[1])
       IN  /\ \A name \in DOMAIN objs.team_cats : objs.team_cats[name] = 0
           /\ \E name \in DOMAIN objs.dicts :
                 objs.dicts[name]["Earned Run Average"] = FloatItem(Inf)
           /\ \E k \in DOMAIN objs.cats_of :
                 /\ objs.cats_of[k]["Home Runs"] = TextItem("-")
                 /\ objs.dicts[SideName(SideMatchup(k), SideAt(k))]["Home Runs"]
                        = FloatItem(Zero)
           /\ \A name \in DOMAIN objs.dicts :
                 \A c \in DOMAIN objs.dicts[name] :
                     objs.dicts[name][c] = FloatItem(_collect_team_cats(schedule[1]).cats[name][c])

\* the sum of one field of the records of an all-play dict
RECURSIVE SumField(_, _, _)
SumField(records, names, field) ==
    IF names = {} THEN 0
    ELSE LET t == CHOOSE x \in names : TRUE
         IN  records[t][field] + SumField(records, names \ {t}, field)

Played(rec) == rec.wins + rec.losses + rec.ties

\* C23: in a period with n teams that have the same c categories, the all-play
\* simulation adds (n - 1) * c to the wins + losses + ties of each of them, and
\* no record to any other team; through every period of every schedule the
\* all-play wins of all teams sum to their all-play losses.
C23_EachPairOnce ==
    /\ \A k \in DOMAIN schedule :
          schedule[k].matchups # <<>> =>
              LET tc == _collect_team_cats(schedule[k])
                  week == _weekly_all_play(schedule[k])
                  n == Len(tc.teams)
              IN  /\ DOMAIN week \subseteq Range(tc.teams)
                  /\ \A t \in Range(tc.teams) :
                        Played(RecOf(week, t)) = (n - 1) * Cardinality(DOMAIN tc.cats[t])
    /\ \A k \in DOMAIN schedule :
          LET through == _all_play_record(schedule, schedule[k].period_num)
          IN  SumField(through, DOMAIN through, "wins")
                  = SumField(through, DOMAIN through, "losses")
    /\ (pc = "done" /\ "all_play_record" \in DOMAIN result) =>
          SumField(result.all_play_record, DOMAIN result.all_play_record, "wins")
              = SumField(result.all_play_record, DOMAIN result.all_play_record, "losses")

\* a report on a week of four teams in which team A has more all-play wins
\* than losses and every team has 3 * 3 outcomes
C23_Witness ==
    /\ pc = "done"
    /\ "all_play_record" \in DOMAIN result
    /\ Len(schedule[1].matchups) = 2
    /\ result.all_play_record["A"].wins > result.all_play_record["A"].losses
    /\ \A t \in Range(TeamNames) :
          Played(result.all_play_record[t]) = 3 * Len(Categories)

\* the periods that may follow period n: none, or a period n + 1 with the
\* matchup of A and B in any of the season's outcomes
LaterPeriods(n) ==
    {<<>>} \cup {AppendMatchup(<<Period(n + 1, GoodRange)>>,
                               Matchup(1, kind.wlt, kind.away, kind.home)) :
                    kind \in SeasonMatchups}

\* C24: with the periods in ascending order, _all_play_record(schedule, N) and
\* _streaks(schedule, N) are those of the periods up to N alone, whatever
\* follows period N, and they are not those of the periods before N when
\* period N has matchups.
C24_CutoffAtTarget ==
    /\ \A k \in DOMAIN schedule :
          LET n == schedule[k].period_num
              upto == SubSeq(schedule, 1, k)
              before == SubSeq(schedule, 1, k - 1)
          IN  /\ \A later \in LaterPeriods(n) :
                    /\ _all_play_record(upto \o later, n) = _all_play_record(schedule, n)
                    /\ _streaks(upto \o later, n) = _streaks(schedule, n)
              /\ schedule[k].matchups # <<>> =>
                    /\ _all_play_record(before, n) # _all_play_record(schedule, n)
                    /\ _streaks(before, n) # _streaks(schedule, n)
    /\ (pc = "done" /\ DOMAIN result = ResultFields) =>
          LET n == result.period.period_num
              upto == SubSeq(schedule, 1, n)
          IN  /\ result.all_play_record = _all_play_record(upto, n)
              /\ result.streaks = _streaks(upto, n)

\* a report on week 2 of three: A won weeks 1 and 2 and lost week 3; the
\* report has A on a streak of two wins, and through week 3 it differs
C24_Witness ==
    /\ pc = "done"
    /\ DOMAIN result = ResultFields
    /\ Len(schedule) = 3
    /\ result.period.period_num = 2
    /\ Outcome("A", 1) = "W"
    /\ Outcome("A", 2) = "W"
    /\ Outcome("A", 3) = "L"
    /\ result.streaks["A"] = [type |-> "W", count |-> 2]
    /\ _streaks(schedule, 3)["A"] = [type |-> "L", count |-> 1]
    /\ _all_play_record(schedule, 3) # result.all_play_record

\* C25: compute_weekly_stats asks the client for the schedule first and
\* resolves the target period from it; a call that returns the
\* no-completed-period error has made no other request, and a call that returns
\* the statistics has made exactly one batch fetch, for the resolved period's
\* number, after the period was resolved and before any metric was computed.
C25_ResolveBeforeFetch ==
    /\ []((pc = "done" /\ result = NoCompletedPeriod) => requests = <<ScheduleRequest>>)
    /\ []((pc = "done" /\ "period" \in DOMAIN result) =>
              /\ result.period = ResolvePeriod(schedule, period_arg)
              /\ requests = <<ScheduleRequest, FetchRequest(result.period.period_num)>>)
    /\ [][requests' # requests =>
              \/ requests = <<>> /\ requests' = <<ScheduleRequest>>
              \/ /\ pc = "check"
                 /\ target_period = ResolvePeriod(schedule, period_arg)
                 /\ ~NoTarget(target_period)
                 /\ requests' = Append(requests, FetchRequest(target_period.period_num))
                 /\ result = NoResult /\ result' = NoResult]_vars
    /\ [][(result' # result /\ "period" \in DOMAIN result') =>
              requests = <<ScheduleRequest, FetchRequest(result'.period.period_num)>>]_vars

\* a call without a period number on three weeks of which the last has no
\* matchup yet: the report is on week 2, after the schedule and one batch
\* fetch for period 2
C25_Witness ==
    /\ pc = "done"
    /\ DOMAIN result = ResultFields
    /\ IsNone(period_arg)
    /\ Len(schedule) = 3
    /\ schedule[3].matchups = <<>>
    /\ result.period.period_num = 2
    /\ requests = <<ScheduleRequest, FetchRequest(2)>>
    /\ result = compute_weekly_stats(schedule, batch, period_arg)

\* invocation r takes a step
Stepped(r) == runs'[r] # runs[r]

\* Discord accepted the embed of id in check_once number check
PostedIn(posts, id, check) ==
    \E i \in DOMAIN posts : posts[i] = [tx_set_id |-> id, check |-> check]

\* the ids Discord accepted in check_once number check
PostedIds(posts, check) ==
    {posts[i].tx_set_id : i \in {j \in DOMAIN posts : posts[j].check = check}}

\* a check_once has returned or raised
SomeCheckEnded == \E r \in Invocations : runs[r].pc = "idle" /\ runs[r].check > 0

\* C26: once a check_once has ended the league is seeded; the step that seeds
\* records every id the provider returned to that check_once and posts
\* nothing; on a seeded league no check_once seeds again, and it takes every
\* listed id that is not recorded for new.
C26_SeedsOnceOnFirstRun ==
    /\ [](SomeCheckEnded => store.seeded)
    /\ [][\A r \in Invocations :
              /\ (Stepped(r) /\ ~store.seeded /\ store' # store) =>
                    /\ store'.seeded
                    /\ Range(AllIds(runs[r].txns, runs[r].trades)) \subseteq store'.seen_ids
                    /\ discord' = discord
              /\ (Stepped(r) /\ store.seeded) =>
                    /\ runs'[r].outcome # "seeded"
                    /\ (runs[r].pc = "load" =>
                           Range(runs'[r].todo) =
                               Range(AllIds(runs[r].txns, runs[r].trades)) \ store.seen_ids)]_vars

\* what a step of a check_once that is no dry run records and takes for new:
\* the ids it adds to the seen ids were accepted by Discord in this check_once,
\* a cycle that ends adds all of those, and the items it takes for new are
\* the listed ones that are not recorded
RecordsWhatItPosted(r) ==
    /\ \A id \in store'.seen_ids \ store.seen_ids : PostedIn(discord, id, runs[r].check)
    /\ (runs[r].pc = "post" /\ runs'[r].outcome = "saved") =>
          store'.seen_ids = store.seen_ids \cup PostedIds(discord, runs[r].check)
    /\ (runs[r].pc = "post" /\ runs'[r].outcome = "raised") => store' = store
    /\ runs[r].pc = "load" =>
          Range(runs'[r].todo) = Range(AllIds(runs[r].txns, runs[r].trades)) \ store.seen_ids

PostedBefore(a, b) ==
    IF a[1] = b[1] THEN a[2] < b[2] ELSE a[1] = "txn"

C29_PostedAtMostOnce ==
    \A i, j \in DOMAIN discord :
        i # j => discord[i].tx_set_id # discord[j].tx_set_id

\* C30: a dry run of check_once on a seeded league changes neither the seen
\* ids nor what Discord has, so the items it previewed are still new to a
\* later check_once.
C30_DryRunOnlyPreviews ==
    [][\A r \in Invocations :
          (Stepped(r) /\ runs[r].dry_run /\ store.seeded) =>
              /\ store' = store
              /\ discord' = discord]_vars

=============================================================================
